---- MODULE Spec2Model ----
(***************************************************************************)
(* Model of the fisquality simulation engine (server/engine.ts), of the    *)
(* pattern expander it consumes (server/occurrences.ts) and of the route   *)
(* that runs it and stores its progress (server/routes.ts, storage.ts).    *)
(*                                                                         *)
(* Money is counted in whole cents.  Every amount the model draws is an    *)
(* integer far below 2^53, so the double arithmetic of the code is exact   *)
(* on it and integer arithmetic is a faithful rendering.  The code's       *)
(* tolerance of 0.01 is one cent.                                          *)
(***************************************************************************)
EXTENDS Integers, Sequences, FiniteSets, TLC

VARIABLES
    caller,           \* who drives the engine: "route" (POST /simulations), "test" (runSimulation called bare), "ledger", or the name of a test scenario
    inputs,           \* SimulationInputs: year, fiscalStartMonth, startingBalances
    company,          \* the Company handed to the engine
    revenuePatterns,  \* sequence of revenue patterns
    expensePatterns,  \* sequence of expense patterns
    tzWest,           \* TRUE when the server's local time zone is west of UTC
    tzEast,           \* TRUE when the server's local time zone is east of UTC
    sinkFailAt,       \* the calls of the progress callback that reject
    pc,               \* position of the run
    occurrences,      \* result of expandAllPatterns
    balanceMap,       \* Account -> 12 MonthlyAccountBalance buckets, by calendar month
    applied,          \* indices of the occurrences posted to the ledger, in posting order
    loopIndex,        \* i of the month loop of runSimulation
    emitCount,        \* number of emitProgress calls made so far
    published,        \* snapshots the progress callback accepted, in order
    workDone,         \* aggregation stages completed so far
    monthlyTotals,    \* result of calculateMonthlySummaries
    overallTotals,    \* result of calculateOverallSummary
    outcome,          \* what runSimulation handed to its caller, or the error the route raised after it
    sim,              \* the simulations row of this run in storage
    savedBalances,    \* number of account_balances rows stored for this run
    response,         \* HTTP response of the route
    stream,           \* one subscriber of GET /api/simulations/:id/stream: its connection and timers
    inflight,         \* progress records read by polls of the stream that have not resumed yet
    events,           \* the events written to the subscriber's response, in order
    companyOwner,     \* companies table: the userId of each stored company
    patternTable,     \* revenue_patterns and expense_patterns tables: the row of each pattern id
    lastRequest,      \* the last pattern request served, with its answer
    cancel            \* TRUE once the caller of a run has fired its cancellation signal

vars == <<caller, inputs, company, revenuePatterns, expensePatterns, tzWest, tzEast,
          sinkFailAt, pc, occurrences, balanceMap, applied, loopIndex,
          emitCount, published, workDone, monthlyTotals, overallTotals,
          outcome, sim, savedBalances, response, stream, inflight, events,
          companyOwner, patternTable, lastRequest, cancel>>

inputVars == <<caller, inputs, company, revenuePatterns, expensePatterns,
               tzWest, tzEast, sinkFailAt>>

\* the state of the handlers that run beside a simulation
streamVars == <<stream, inflight, events>>

accessVars == <<companyOwner, patternTable, lastRequest>>

outsideVars == <<streamVars, accessVars, cancel>>

(***************************************************************************)
(* Bounds                                                                  *)
(***************************************************************************)
MaxOcc == 2          \* occurrences drawn for the ledger specification
MaxPatterns == 1     \* patterns of each kind handed to a run

(***************************************************************************)
(* Program constants                                                       *)
(***************************************************************************)
Tolerance == 1               \* 0.01 in cents
maxPatterns == 100           \* DEFAULT_ENGINE_CONFIG.maxPatterns
MinYear == 2020
MaxYear == 2030

Accounts == <<"operating", "savings", "personal", "vat">>
AccountSet == {"operating", "savings", "personal", "vat"}
Months == 1..12
NoValue == [none |-> TRUE]
NoRate == -1    \* a vatRate column that is null

Abs(x) == IF x < 0 THEN -x ELSE x

\* Array.prototype.reduce((sum, x) => sum + f(x), 0), left to right
RECURSIVE SumTo(_, _)
SumTo(seq, n) == IF n = 0 THEN 0 ELSE SumTo(seq, n - 1) + seq[n]
Sum(seq) == SumTo(seq, Len(seq))

(***************************************************************************)
(* engine.ts: fiscal calendar                                              *)
(***************************************************************************)
calendarToFiscalMonth(calendarMonth, fiscalStartMonth) ==
    ((calendarMonth - fiscalStartMonth + 12) % 12) + 1

getFiscalMonthOrder_shifted(fiscalStartMonth) ==
    [k \in 1..12 |-> ((fiscalStartMonth + (k - 1)) % 12) + 1]

getFiscalMonthOrder_calendar(fiscalStartMonth) ==
    [k \in 1..12 |-> k]

\* element k (1-based here) is the code's months[k - 1]
getFiscalMonthOrder(fiscalStartMonth) ==
    [k \in 1..12 |-> ((fiscalStartMonth + (k - 1) - 1) % 12) + 1]

(***************************************************************************)
(* occurrences.ts: occurrence construction                                 *)
(***************************************************************************)
\* rates are carried in tenths of a percent: 200 is 20%, 55 is 5.5%
calculateVAT(grossAmount, vatRate) ==
    LET vatAmount == (grossAmount * vatRate) \div (1000 + vatRate)
    IN  [vatAmount |-> vatAmount, netAmount |-> grossAmount - vatAmount]

generateRevenuePostings(occurrence) ==
    << [account |-> "operating", amount |-> occurrence.netAmount],
       [account |-> "vat", amount |-> occurrence.vatAmount] >>

generateExpensePostings(occurrence) ==
    << [account |-> "operating", amount |-> -occurrence.netAmount] >>
    \o (IF occurrence.vatDeductible /\ occurrence.vatAmount > 0
        THEN << [account |-> "vat", amount |-> -occurrence.vatAmount] >>
        ELSE <<>>)

\* a pattern is [id, kind, frequency, startMonth, amount, vatRate, vatDeductible].
\* Only revenue patterns have a vatRate column; it is a decimal string, truthy
\* whenever it is set ("0.00" included), and NoRate stands for null.
createOccurrence(pattern, date) ==
    LET vatRate == IF pattern.kind = "revenue" /\ pattern.vatRate # NoRate
                   THEN pattern.vatRate ELSE 200
        split == calculateVAT(pattern.amount, vatRate)
        base == [id |-> <<pattern.id, date>>,
                 patternId |-> pattern.id,
                 date |-> date,
                 type |-> pattern.kind,
                 grossAmount |-> pattern.amount,
                 vatRate |-> vatRate,
                 vatAmount |-> split.vatAmount,
                 netAmount |-> split.netAmount,
                 vatDeductible |-> IF pattern.kind = "expense"
                                   THEN pattern.vatDeductible ELSE FALSE]
    IN  [accountPostings |-> IF base.type = "revenue"
                             THEN generateRevenuePostings(base)
                             ELSE generateExpensePostings(base)] @@ base

(***************************************************************************)
(* engine.ts: ledger                                                       *)
(***************************************************************************)
EmptyBucket(account, month, opening) ==
    [account |-> account, month |-> month,
     openingBalance |-> opening, transactions |-> <<>>,
     closingBalance |-> opening,
     summary |-> [totalDebits |-> 0, totalCredits |-> 0, netChange |-> 0]]

createInitialBalances_january(startingBalances, fiscalStartMonth) ==
    [a \in AccountSet |-> [m \in Months |->
        IF m = 1 THEN EmptyBucket(a, m, startingBalances[a])
        ELSE EmptyBucket(a, m, 0)]]

createInitialBalances(startingBalances, fiscalStartMonth) ==
    [a \in AccountSet |-> [m \in Months |->
        IF m = fiscalStartMonth THEN EmptyBucket(a, m, startingBalances[a])
        ELSE EmptyBucket(a, m, 0)]]

\* month of the bucket an occurrence is posted to: parseInt(date.substring(5, 7))
postingMonth(occurrence) == occurrence.date.month

applyPosting_overwrite(occurrence, posting, bm) ==
    LET month == postingMonth(occurrence)
        b == bm[posting.account][month]
    IN [bm EXCEPT ![posting.account][month] =
          [b EXCEPT !.transactions = Append(@, [sourceOccurrenceId |-> occurrence.id,
                                               amount |-> posting.amount]),
                    !.summary = [totalDebits |-> IF posting.amount > 0 THEN posting.amount ELSE 0,
                                 totalCredits |-> IF posting.amount > 0 THEN 0 ELSE Abs(posting.amount),
                                 netChange |-> posting.amount]]]

\* body of the forEach of applyOccurrenceToBalances, for one posting
applyPosting(occurrence, posting, bm) ==
    LET month == postingMonth(occurrence)
        b == bm[posting.account][month]
    IN [bm EXCEPT ![posting.account][month] =
          [b EXCEPT !.transactions = Append(@, [sourceOccurrenceId |-> occurrence.id,
                                               amount |-> posting.amount]),
                    !.summary = [totalDebits |-> IF posting.amount > 0
                                                 THEN @.totalDebits + posting.amount
                                                 ELSE @.totalDebits,
                                 totalCredits |-> IF posting.amount > 0
                                                  THEN @.totalCredits
                                                  ELSE @.totalCredits + Abs(posting.amount),
                                 netChange |-> @.netChange + posting.amount]]]

RECURSIVE applyPostings(_, _, _)
applyPostings(occurrence, n, bm) ==
    IF n = 0 THEN bm
    ELSE applyPosting(occurrence, occurrence.accountPostings[n],
                      applyPostings(occurrence, n - 1, bm))

applyOccurrenceToBalances(occurrence, bm) ==
    applyPostings(occurrence, Len(occurrence.accountPostings), bm)

\* the inner forEach of finalizeBalances, for one account, up to fiscal index n (1-based)
RECURSIVE rollForward(_, _, _)
rollForward(accountBalances, order, n) ==
    IF n = 0 THEN accountBalances
    ELSE LET prior == rollForward(accountBalances, order, n - 1)
             month == order[n]
             b == prior[month]
         IN IF n = 1
            THEN [prior EXCEPT ![month].closingBalance =
                      b.openingBalance + b.summary.netChange]
            ELSE LET opening == prior[order[n - 1]].closingBalance
                 IN [prior EXCEPT ![month].openingBalance = opening,
                                  ![month].closingBalance = opening + b.summary.netChange]

finalizeBalances_noCarry(bm, fiscalStartMonth) ==
    [a \in AccountSet |-> [m \in Months |->
        [bm[a][m] EXCEPT !.closingBalance =
            bm[a][m].openingBalance + bm[a][m].summary.netChange]]]

finalizeBalances(bm, fiscalStartMonth) ==
    [a \in AccountSet |->
        rollForward(bm[a], getFiscalMonthOrder(fiscalStartMonth), 12)]

(***************************************************************************)
(* engine.ts: summaries                                                    *)
(***************************************************************************)
\* monthName is rendered as <<month, k>>: k = 0 stands for the bare English
\* name, k > 0 for "<name> (FY Month k)"
getFiscalMonthName(calendarMonth, fiscalStartMonth) ==
    IF fiscalStartMonth = 1 THEN <<calendarMonth, 0>>
    ELSE <<calendarMonth, ((calendarMonth - fiscalStartMonth + 12) % 12) + 1>>

summaryOfMonth(bm, occs, month, fiscalStartMonth) ==
    LET IsMonth(o) == o.date.month = month
        monthOccurrences == SelectSeq(occs, IsMonth)
        IsRevenue(o) == o.type = "revenue"
        IsExpense(o) == o.type = "expense"
        rev == SelectSeq(monthOccurrences, IsRevenue)
        exp == SelectSeq(monthOccurrences, IsExpense)
        revenue == [gross |-> Sum([k \in 1..Len(rev) |-> rev[k].grossAmount]),
                    net |-> Sum([k \in 1..Len(rev) |-> rev[k].netAmount]),
                    vat |-> Sum([k \in 1..Len(rev) |-> rev[k].vatAmount])]
        expenses == [gross |-> Sum([k \in 1..Len(exp) |-> exp[k].grossAmount]),
                     net |-> Sum([k \in 1..Len(exp) |-> exp[k].netAmount]),
                     vat |-> Sum([k \in 1..Len(exp) |-> exp[k].vatAmount]),
                     deductibleVat |-> Sum([k \in 1..Len(exp) |->
                         IF exp[k].vatDeductible THEN exp[k].vatAmount ELSE 0])]
    IN [month |-> month,
        monthName |-> getFiscalMonthName(month, fiscalStartMonth),
        revenue |-> revenue,
        expenses |-> expenses,
        netProfit |-> revenue.net - expenses.net,
        netVatPosition |-> revenue.vat - expenses.deductibleVat,
        accountBalances |-> [a \in AccountSet |-> bm[a][month].closingBalance]]

calculateMonthlySummaries_calendar(bm, occs, fiscalStartMonth) ==
    [k \in 1..12 |-> summaryOfMonth(bm, occs, k, fiscalStartMonth)]

calculateMonthlySummaries(bm, occs, fiscalStartMonth) ==
    LET fiscalMonthOrder == getFiscalMonthOrder(fiscalStartMonth)
    IN [k \in 1..12 |-> summaryOfMonth(bm, occs, fiscalMonthOrder[k], fiscalStartMonth)]

calculateOverallSummary(monthlySummaries) ==
    LET n == Len(monthlySummaries)
        revenue == [gross |-> Sum([k \in 1..n |-> monthlySummaries[k].revenue.gross]),
                    net |-> Sum([k \in 1..n |-> monthlySummaries[k].revenue.net]),
                    vat |-> Sum([k \in 1..n |-> monthlySummaries[k].revenue.vat])]
        expenses == [gross |-> Sum([k \in 1..n |-> monthlySummaries[k].expenses.gross]),
                     net |-> Sum([k \in 1..n |-> monthlySummaries[k].expenses.net]),
                     vat |-> Sum([k \in 1..n |-> monthlySummaries[k].expenses.vat]),
                     deductibleVat |-> Sum([k \in 1..n |->
                         monthlySummaries[k].expenses.deductibleVat])]
    IN [totalRevenue |-> revenue,
        totalExpenses |-> expenses,
        netProfit |-> revenue.net - expenses.net,
        totalVatCollected |-> revenue.vat,
        totalVatDeductible |-> expenses.deductibleVat,
        netVatOwed |-> revenue.vat - expenses.deductibleVat,
        finalAccountBalances |-> IF n > 0 THEN monthlySummaries[n].accountBalances
                                 ELSE [a \in AccountSet |-> 0]]

(***************************************************************************)
(* engine.ts: invariant validation.  Each validator returns the sequence   *)
(* of its error messages, rendered as records.                             *)
(***************************************************************************)
\* netChange summed over the twelve buckets in calendar order
totalNetPostings(accountBalances) ==
    Sum([m \in 1..12 |-> accountBalances[m].summary.netChange])

balanceErrorsOf(bm, startingBalances, fiscalStartMonth, account) ==
    LET accountBalances == bm[account]
        initialBalance == startingBalances[account]
        fiscalStartBalance == accountBalances[fiscalStartMonth]
        lastFiscalMonth == getFiscalMonthOrder(fiscalStartMonth)[12]
        finalBalance == accountBalances[lastFiscalMonth].closingBalance
        expectedFinalBalance == initialBalance + totalNetPostings(accountBalances)
    IN (IF Abs(fiscalStartBalance.openingBalance - initialBalance) > Tolerance
        THEN << [check |-> "I1", account |-> account,
                 actual |-> fiscalStartBalance.openingBalance,
                 expected |-> initialBalance] >>
        ELSE <<>>)
       \o
       (IF Abs(finalBalance - expectedFinalBalance) > Tolerance
        THEN << [check |-> "I3", account |-> account,
                 actual |-> finalBalance, expected |-> expectedFinalBalance] >>
        ELSE <<>>)

validateBalanceInvariants(bm, startingBalances, fiscalStartMonth) ==
    balanceErrorsOf(bm, startingBalances, fiscalStartMonth, Accounts[1])
    \o balanceErrorsOf(bm, startingBalances, fiscalStartMonth, Accounts[2])
    \o balanceErrorsOf(bm, startingBalances, fiscalStartMonth, Accounts[3])
    \o balanceErrorsOf(bm, startingBalances, fiscalStartMonth, Accounts[4])

RECURSIVE rollForwardErrorsOf(_, _, _, _)
rollForwardErrorsOf(bm, order, account, n) ==
    IF n < 2 THEN <<>>
    ELSE LET cur == bm[account][order[n]]
             prev == bm[account][order[n - 1]]
             expectedClosingBalance == cur.openingBalance + cur.summary.netChange
         IN rollForwardErrorsOf(bm, order, account, n - 1)
            \o (IF Abs(cur.openingBalance - prev.closingBalance) > Tolerance
                THEN << [check |-> "I2", account |-> account,
                         actual |-> cur.openingBalance,
                         expected |-> prev.closingBalance] >>
                ELSE <<>>)
            \o (IF Abs(cur.closingBalance - expectedClosingBalance) > Tolerance
                THEN << [check |-> "I2", account |-> account,
                         actual |-> cur.closingBalance,
                         expected |-> expectedClosingBalance] >>
                ELSE <<>>)

validateRollForwardInvariants(bm, fiscalStartMonth) ==
    LET order == getFiscalMonthOrder(fiscalStartMonth)
    IN rollForwardErrorsOf(bm, order, Accounts[1], 12)
       \o rollForwardErrorsOf(bm, order, Accounts[2], 12)
       \o rollForwardErrorsOf(bm, order, Accounts[3], 12)
       \o rollForwardErrorsOf(bm, order, Accounts[4], 12)

validateVATInvariants(monthly, overall) ==
    LET totalMonthlyVATCollected == Sum([k \in 1..Len(monthly) |-> monthly[k].revenue.vat])
        totalMonthlyVATDeductible ==
            Sum([k \in 1..Len(monthly) |-> monthly[k].expenses.deductibleVat])
        expectedNetVAT == overall.totalVatCollected - overall.totalVatDeductible
    IN (IF Abs(totalMonthlyVATCollected - overall.totalVatCollected) > Tolerance
        THEN << [check |-> "I4", account |-> "vat",
                 actual |-> overall.totalVatCollected,
                 expected |-> totalMonthlyVATCollected] >>
        ELSE <<>>)
       \o
       (IF Abs(totalMonthlyVATDeductible - overall.totalVatDeductible) > Tolerance
        THEN << [check |-> "I4", account |-> "vat",
                 actual |-> overall.totalVatDeductible,
                 expected |-> totalMonthlyVATDeductible] >>
        ELSE <<>>)
       \o
       (IF Abs(expectedNetVAT - overall.netVatOwed) > Tolerance
        THEN << [check |-> "I4", account |-> "vat",
                 actual |-> overall.netVatOwed, expected |-> expectedNetVAT] >>
        ELSE <<>>)

(***************************************************************************)
(* Input domains                                                           *)
(***************************************************************************)
StartingProfiles ==
    { [operating |-> 100000, savings |-> 500000, personal |-> 0, vat |-> -200000] }

\* revenue at 20% and at 0%, an expense with deductible VAT and one without
PatternKinds ==
    { [id |-> "rev-20", kind |-> "revenue", amount |-> 12000, vatRate |-> 200,
       vatDeductible |-> FALSE],
      [id |-> "rev-0", kind |-> "revenue", amount |-> 700, vatRate |-> 0,
       vatDeductible |-> FALSE],
      [id |-> "exp-ded", kind |-> "expense", amount |-> 2400, vatRate |-> NoRate,
       vatDeductible |-> TRUE],
      [id |-> "exp-non", kind |-> "expense", amount |-> 600, vatRate |-> NoRate,
       vatDeductible |-> FALSE] }

\* months in which the ledger specification dates its occurrences
OccMonths == {1, 6, 12}

\* the ledger specification posts revenue (operating and vat debited) and
\* deductible expenses (operating and vat credited)
LedgerKinds == { p \in PatternKinds : p.id \in {"rev-20", "exp-ded"} }

LedgerOccPool ==
    { createOccurrence(p, [month |-> m, day |-> 1]) : p \in LedgerKinds, m \in OccMonths }

SeqsUpTo(S, n) == UNION { [1..k -> S] : k \in 0..n }

Range(seq) == { seq[k] : k \in 1..Len(seq) }

(***************************************************************************)
(* LedgerSpec: the ledger functions of engine.ts composed as runSimulation *)
(* composes them (seed, post every occurrence, roll forward, summarize),   *)
(* with the occurrences posted in an arbitrary order.                      *)
(***************************************************************************)
\* two users with one company each; the first owns a revenue pattern, the
\* second an expense pattern
Users == {"test-user-001", "test-user-002"}

StoredCompanies ==
    [c \in {"test-company-001", "test-company-002"} |->
        IF c = "test-company-001" THEN "test-user-001" ELSE "test-user-002"]

NoRow == [deleted |-> TRUE]

StoredPatterns ==
    [id \in {"rev-001", "exp-001"} |->
        IF id = "rev-001"
        THEN [deleted |-> FALSE, table |-> "revenue", companyId |-> "test-company-001",
              amount |-> 1200000]
        ELSE [deleted |-> FALSE, table |-> "expense", companyId |-> "test-company-002",
              amount |-> 240000]]

\* no pattern request has been served
NoRequest ==
    /\ companyOwner = StoredCompanies
    /\ patternTable = StoredPatterns
    /\ lastRequest = NoValue

\* nobody has opened the progress stream
NoSubscriber ==
    /\ stream = [state |-> "none", polling |-> FALSE, heartbeat |-> FALSE,
                 lastProgress |-> 0, lastStatus |-> "draft"]
    /\ inflight = <<>>
    /\ events = <<>>

LedgerInit ==
    /\ caller = "ledger"
    /\ inputs \in { [year |-> 2024, fiscalStartMonth |-> s, hasStartingBalances |-> TRUE,
                      startingBalances |-> sb] : s \in Months, sb \in StartingProfiles }
    /\ company = NoValue
    /\ revenuePatterns = <<>>
    /\ expensePatterns = <<>>
    /\ tzWest = FALSE
    /\ tzEast = FALSE
    /\ sinkFailAt = {}
    /\ pc = "l_seed"
    /\ occurrences \in SeqsUpTo(LedgerOccPool, MaxOcc)
    /\ balanceMap = NoValue
    /\ applied = <<>>
    /\ loopIndex = 0
    /\ emitCount = 0
    /\ published = <<>>
    /\ workDone = {}
    /\ monthlyTotals = NoValue
    /\ overallTotals = NoValue
    /\ outcome = NoValue
    /\ sim = NoValue
    /\ savedBalances = 0
    /\ response = NoValue
    /\ NoSubscriber /\ NoRequest /\ cancel = FALSE

LSeed ==
    /\ pc = "l_seed"
    /\ balanceMap' = createInitialBalances(inputs.startingBalances, inputs.fiscalStartMonth)
    /\ workDone' = workDone \cup {"seed"}
    /\ pc' = "l_apply"
    /\ UNCHANGED <<inputVars, outsideVars, occurrences, applied, loopIndex, emitCount, published,
                   monthlyTotals, overallTotals, outcome, sim, savedBalances, response>>

LApply ==
    /\ pc = "l_apply"
    /\ \E k \in (1..Len(occurrences)) \ Range(applied) :
          /\ balanceMap' = applyOccurrenceToBalances(occurrences[k], balanceMap)
          /\ applied' = Append(applied, k)
    /\ UNCHANGED <<inputVars, outsideVars, pc, occurrences, loopIndex, emitCount, published, workDone,
                   monthlyTotals, overallTotals, outcome, sim, savedBalances, response>>

LFinalize ==
    /\ pc = "l_apply"
    /\ Len(applied) = Len(occurrences)
    /\ balanceMap' = finalizeBalances(balanceMap, inputs.fiscalStartMonth)
    /\ workDone' = workDone \cup {"rollForward"}
    /\ pc' = "l_finalized"
    /\ UNCHANGED <<inputVars, outsideVars, occurrences, applied, loopIndex, emitCount, published,
                   monthlyTotals, overallTotals, outcome, sim, savedBalances, response>>

LSummaries ==
    /\ pc = "l_finalized"
    /\ monthlyTotals' = calculateMonthlySummaries(balanceMap, occurrences,
                                                  inputs.fiscalStartMonth)
    /\ workDone' = workDone \cup {"monthly"}
    /\ pc' = "l_summarized"
    /\ UNCHANGED <<inputVars, outsideVars, occurrences, balanceMap, applied, loopIndex, emitCount,
                   published, overallTotals, outcome, sim, savedBalances, response>>

LOverall ==
    /\ pc = "l_summarized"
    /\ overallTotals' = calculateOverallSummary(monthlyTotals)
    /\ workDone' = workDone \cup {"overall"}
    /\ pc' = "l_done"
    /\ UNCHANGED <<inputVars, outsideVars, occurrences, balanceMap, applied, loopIndex, emitCount,
                   published, monthlyTotals, outcome, sim, savedBalances, response>>

LedgerNext == LSeed \/ LApply \/ LFinalize \/ LSummaries \/ LOverall

LedgerSpec == LedgerInit /\ [][LedgerNext]_vars

RolledForward == pc \in {"l_finalized", "l_summarized", "l_done"}

\* the calendar month that precedes m in every fiscal year
PriorMonth(m) == IF m = 1 THEN 12 ELSE m - 1

LastFiscalMonth == PriorMonth(inputs.fiscalStartMonth)

(***************************************************************************)
(* C1 (I3, P1): once the ledger is seeded, every occurrence is posted and  *)
(* roll-forward has run, the closing balance of the last fiscal month of   *)
(* every account is its starting balance plus the sum of netChange over    *)
(* the twelve months, within one cent.                                     *)
(***************************************************************************)
C1_Conservation ==
    RolledForward =>
        \A a \in AccountSet :
            Abs(balanceMap[a][LastFiscalMonth].closingBalance
                - (inputs.startingBalances[a]
                   + Sum([m \in 1..12 |-> balanceMap[a][m].summary.netChange])))
              <= Tolerance

C1_Witness ==
    /\ RolledForward
    /\ inputs.fiscalStartMonth > 1
    /\ Len(applied) = MaxOcc
    /\ \E m1, m2 \in Months : /\ m1 # m2
                              /\ balanceMap["operating"][m1].summary.netChange # 0
                              /\ balanceMap["operating"][m2].summary.netChange # 0

(***************************************************************************)
(* C2 (I2, P2): after roll-forward, for every account and every month cur  *)
(* other than fiscalStartMonth, with prev the calendar month before it     *)
(* (December before January), cur.opening = prev.closing and               *)
(* cur.closing = cur.opening + cur.netChange.                              *)
(***************************************************************************)
C2_RollForward ==
    RolledForward =>
        \A a \in AccountSet : \A cur \in Months \ {inputs.fiscalStartMonth} :
            LET c == balanceMap[a][cur]
                p == balanceMap[a][PriorMonth(cur)]
            IN /\ c.openingBalance = p.closingBalance
               /\ c.closingBalance = c.openingBalance + c.summary.netChange

\* the December-to-January wrap with money carried across it
C2_Witness ==
    /\ RolledForward
    /\ inputs.fiscalStartMonth > 1
    /\ balanceMap["operating"][12].summary.netChange # 0
    /\ balanceMap["operating"][1].summary.netChange # 0
    /\ balanceMap["operating"][1].openingBalance
         = balanceMap["operating"][12].closingBalance
    /\ balanceMap["operating"][1].openingBalance # 0

(***************************************************************************)
(* C3: the opening, netChange and closing of every bucket after            *)
(* roll-forward are fixed by the set of occurrences alone, whatever the    *)
(* order in which they were posted.                                        *)
(***************************************************************************)
\* amount that occurrence o posts to account a (0 when it has no such posting)
PostedTo(o, a) ==
    Sum([k \in 1..Len(o.accountPostings) |->
           IF o.accountPostings[k].account = a THEN o.accountPostings[k].amount ELSE 0])

NetOf(a, m) ==
    Sum([k \in 1..Len(occurrences) |->
           IF occurrences[k].date.month = m THEN PostedTo(occurrences[k], a) ELSE 0])

\* calendar month at fiscal position j (1-based)
FiscalMonthAt(j) == ((inputs.fiscalStartMonth + j - 2) % 12) + 1

\* from fiscal position j on, every bucket of account a opens at `running',
\* moves by the net of its month's occurrences and closes at their sum
RECURSIVE ChainFrom(_, _, _)
ChainFrom(a, j, running) ==
    IF j > 12 THEN TRUE
    ELSE LET b == balanceMap[a][FiscalMonthAt(j)]
             closing == running + NetOf(a, FiscalMonthAt(j))
         IN /\ b.openingBalance = running
            /\ b.closingBalance = closing
            /\ b.summary.netChange = b.closingBalance - b.openingBalance
            /\ ChainFrom(a, j + 1, closing)

C3_OrderIndependent ==
    RolledForward =>
        \A a \in AccountSet : ChainFrom(a, 1, inputs.startingBalances[a])

\* a later-dated occurrence was posted before an earlier-dated one of the same account
C3_Witness ==
    /\ RolledForward
    /\ Len(applied) >= 2
    /\ \E i, j \in 1..Len(applied) :
          /\ i < j
          /\ occurrences[applied[i]].date.month > occurrences[applied[j]].date.month
          /\ applied[i] > applied[j]

(***************************************************************************)
(* holidays.ts: the French holiday calendar.  A date of the target year is *)
(* a record [month, day].                                                  *)
(***************************************************************************)
isLeapYear(year) == (year % 4 = 0 /\ year % 100 # 0) \/ year % 400 = 0

daysInMonth(year, month) ==
    IF month = 2 THEN (IF isLeapYear(year) THEN 29 ELSE 28)
    ELSE IF month \in {4, 6, 9, 11} THEN 30 ELSE 31

\* days of the year before the first of `month'
daysBefore(year, month) == Sum([m \in 1..(month - 1) |-> daysInMonth(year, m)])

daysInYear(year) == daysBefore(year, 13)

dayOfYear(year, date) == daysBefore(year, date.month) + date.day

dateOfDay(year, n) ==
    LET month == CHOOSE m \in 1..12 : daysBefore(year, m) < n /\ n <= daysBefore(year, m + 1)
    IN [month |-> month, day |-> n - daysBefore(year, month)]

\* Date.prototype.getDay: 0 = Sunday .. 6 = Saturday
getDay(year, date) ==
    LET shift == <<0, 3, 2, 5, 0, 3, 5, 1, 4, 6, 2, 4>>
        y == IF date.month < 3 THEN year - 1 ELSE year
    IN (y + y \div 4 - y \div 100 + y \div 400 + shift[date.month] + date.day) % 7

getEasterSunday(year) ==
    LET a == year % 19
        b == year \div 100
        c == year % 100
        d == b \div 4
        e == b % 4
        f == (b + 8) \div 25
        g == (b - f + 1) \div 3
        h == (19 * a + b - d - g + 15) % 30
        i == c \div 4
        k == c % 4
        l == (32 + 2 * e + 2 * i - h - k) % 7
        m == (a + 11 * h + 22 * l) \div 451
        n == (h + l - 7 * m + 114) \div 31
        q == (h + l - 7 * m + 114) % 31
    IN [month |-> n, day |-> q + 1]

\* addDays within the year (Easter and its feasts never leave it)
addDays(year, date, days) == dateOfDay(year, dayOfYear(year, date) + days)

getFrenchHolidays(year, region) ==
    LET easter == getEasterSunday(year)
        fixedHolidays == { [month |-> 1, day |-> 1], [month |-> 5, day |-> 1],
                           [month |-> 5, day |-> 8], [month |-> 7, day |-> 14],
                           [month |-> 8, day |-> 15], [month |-> 11, day |-> 1],
                           [month |-> 11, day |-> 11], [month |-> 12, day |-> 25] }
        easterBasedHolidays == { addDays(year, easter, offset) : offset \in {1, 39, 50} }
        regional == IF region \in {"FR-67", "FR-68", "FR-57"}
                    THEN { addDays(year, easter, -2), [month |-> 12, day |-> 26] }
                    ELSE {}
    IN fixedHolidays \cup easterBasedHolidays \cup regional

(***************************************************************************)
(* occurrences.ts: daily patterns                                          *)
(***************************************************************************)
NoMask == -1                                     \* daysMask null
NoDate == [year |-> 0, month |-> 0, day |-> 0]   \* startDate null

\* overrides.find(o => o.date === dateStr): the first entry for the date
findOverride(overrides, date) ==
    LET hits == { k \in 1..Len(overrides) : overrides[k].date = date }
    IN IF hits = {} THEN 0 ELSE CHOOSE k \in hits : \A j \in hits : k <= j

isDateActive(date, year, pattern, holidays) ==
    LET dayOfWeek == getDay(year, date)
        override == findOverride(pattern.dayOffOverrides, date)
        byMask == IF pattern.daysMask # NoMask
                  THEN (pattern.daysMask \div (2 ^ dayOfWeek)) % 2 # 0
                  ELSE TRUE
        afterWeekends == byMask /\ ~(pattern.excludeWeekends /\ dayOfWeek \in {0, 6})
        afterHolidays == afterWeekends /\ ~(pattern.excludeHolidays /\ date \in holidays)
    IN IF override # 0 THEN pattern.dayOffOverrides[override].active ELSE afterHolidays

\* new Date("YYYY-MM-DD") is midnight UTC: west of UTC it is the evening of
\* the day before, east of UTC a later hour of the same day
localDateOf(isoDate) ==
    IF ~tzWest THEN isoDate
    ELSE IF isoDate.day > 1 THEN [isoDate EXCEPT !.day = @ - 1]
    ELSE IF isoDate.month > 1
         THEN [isoDate EXCEPT !.month = @ - 1,
                              !.day = daysInMonth(isoDate.year, isoDate.month - 1)]
    ELSE [year |-> isoDate.year - 1, month |-> 12, day |-> 31]

\* the days the loop of expandDailyPattern visits: from the start date to
\* endDate = new Date(year, 11, 31), local midnight; a start date parsed from
\* a string keeps its local hour, which on 31 December is past endDate
\* unless the server runs on UTC
dailyWindow(pattern, year) ==
    LET parsed == localDateOf(pattern.startDate)
        fromString == pattern.startDate # NoDate /\ parsed.year = year
        first == IF pattern.startDate = NoDate
                 THEN dayOfYear(year, [month |-> pattern.startMonth, day |-> 1])
                 ELSE IF parsed.year < year THEN 1
                 ELSE dayOfYear(year, parsed)
        last == IF fromString /\ (tzWest \/ tzEast)
                THEN daysInYear(year) - 1 ELSE daysInYear(year)
    IN IF pattern.startDate # NoDate /\ parsed.year > year THEN <<>>
       ELSE [k \in 1..(last - first + 1) |-> dateOfDay(year, first + k - 1)]

expandDailyPattern(pattern, year, holidays) ==
    LET window == dailyWindow(pattern, year)
        Active(date) == isDateActive(date, year, pattern, holidays)
        activeDates == SelectSeq(window, Active)
    IN [k \in 1..Len(activeDates) |-> createOccurrence(pattern, activeDates[k])]

(***************************************************************************)
(* occurrences.ts: pattern expansion                                       *)
(***************************************************************************)
expandMonthlyPattern(pattern) ==
    [k \in 1..(12 - pattern.startMonth + 1) |->
        createOccurrence(pattern, [month |-> pattern.startMonth + k - 1, day |-> 1])]

expandQuarterlyPattern_floor(pattern) ==
    LET startQuarter == pattern.startMonth \div 3
    IN [k \in 1..(4 - startQuarter + 1) |->
          createOccurrence(pattern, [month |-> (startQuarter + k - 2) * 3 + 1, day |-> 1])]

expandQuarterlyPattern(pattern) ==
    LET startQuarter == (pattern.startMonth + 2) \div 3     \* Math.ceil(startMonth / 3)
    IN [k \in 1..(4 - startQuarter + 1) |->
          createOccurrence(pattern, [month |-> (startQuarter + k - 2) * 3 + 1, day |-> 1])]

expandYearlyPattern(pattern) ==
    << createOccurrence(pattern, [month |-> pattern.startMonth, day |-> 1]) >>

\* company.holidayRegion || 'FR': the companies of the model carry no region
expandPattern(pattern) ==
    CASE pattern.frequency = "daily" ->
             expandDailyPattern(pattern, inputs.year, getFrenchHolidays(inputs.year, "FR"))
      [] pattern.frequency = "monthly" -> expandMonthlyPattern(pattern)
      [] pattern.frequency = "quarterly" -> expandQuarterlyPattern(pattern)
      [] pattern.frequency = "yearly" -> expandYearlyPattern(pattern)
      [] OTHER -> <<>>

RECURSIVE expandEach(_, _)
expandEach(patterns, n) ==
    IF n = 0 THEN <<>> ELSE expandEach(patterns, n - 1) \o expandPattern(patterns[n])

\* "YYYY-MM-DD" strings of one year compare as (month, day)
DateKey(o) == o.date.month * 100 + o.date.day

\* Array.prototype.sort with localeCompare on the date: stable
RECURSIVE sortByDate(_)
sortByDate(seq) ==
    IF seq = <<>> THEN <<>>
    ELSE LET k == CHOOSE i \in 1..Len(seq) :
                    \A j \in 1..Len(seq) :
                        \/ DateKey(seq[i]) < DateKey(seq[j])
                        \/ DateKey(seq[i]) = DateKey(seq[j]) /\ i <= j
         IN <<seq[k]>> \o sortByDate(SubSeq(seq, 1, k - 1) \o SubSeq(seq, k + 1, Len(seq)))

expandAllPatterns(revenue, expense) ==
    sortByDate(expandEach(revenue, Len(revenue)) \o expandEach(expense, Len(expense)))

(***************************************************************************)
(* engine.ts: input validation                                             *)
(***************************************************************************)
validateSimulationInputs(in, revenue, expense) ==
    (IF in.year = 0 \/ in.year < MinYear \/ in.year > MaxYear
     THEN <<"Year must be between 2020 and 2030">> ELSE <<>>)
    \o (IF in.fiscalStartMonth = 0 \/ in.fiscalStartMonth < 1 \/ in.fiscalStartMonth > 12
        THEN <<"Fiscal start month must be between 1 and 12">> ELSE <<>>)
    \o (IF ~in.hasStartingBalances THEN <<"Starting balances are required">> ELSE <<>>)
    \o (IF Len(revenue) + Len(expense) > maxPatterns
        THEN <<"Too many patterns">> ELSE <<>>)

\* a string field is falsy when it is ""
validateCompanyForSimulation(c) ==
    IF c.isNull THEN <<"Company data is required">>
    ELSE (IF c.id = "" THEN <<"Company ID is required">> ELSE <<>>)
      \o (IF c.userId = "" THEN <<"Company must be associated with a user">> ELSE <<>>)
      \o (IF c.name = "" THEN <<"Company name is required">> ELSE <<>>)
      \o (IF c.legalForm = "" THEN <<"Company legal form is required">> ELSE <<>>)
      \o (IF c.activitySector = "" THEN <<"Company activity sector is required">> ELSE <<>>)
      \o (IF ~c.hasCapital THEN <<"Company capital is required">> ELSE <<>>)
      \o (IF c.bankPartner = "" THEN <<"Company bank partner is required">> ELSE <<>>)
      \o (IF c.fiscalYear # "" /\ c.fiscalYear \notin {"calendar", "fiscal"}
          THEN <<"Company fiscal year must be either calendar or fiscal">> ELSE <<>>)

allValidationErrors ==
    validateSimulationInputs(inputs, revenuePatterns, expensePatterns)
    \o validateCompanyForSimulation(company)

(***************************************************************************)
(* engine.ts: progress emission                                            *)
(***************************************************************************)
\* emitProgress calls of a complete run: 10, 20, the 12 months, 85, 90, 95, 100
Emissions == 2 + 12 + 4

\* emitProgress calls the sink only when a callback and a simulation id were given
hasSink == caller = "route"

\* does the sink reject the n-th call
sinkRejects(n) == n \in sinkFailAt

emitOutcome_rethrow(rejected) == IF rejected THEN "throw" ELSE "continue"

\* what emitProgress hands back to runSimulation: the try/catch around the
\* callback turns a rejection into a console warning
emitOutcome(rejected) == "continue"

monthProgress_early(i) == 20 + (i * 60) \div 12

\* 20 + ((i + 1) / 12) * 60, with i the 0-based loop index
monthProgress(i) == 20 + ((i + 1) * 60) \div 12

\* progressCallback of the route: storage.updateSimulationProgress
updateSimulationProgress(row, snapshot) ==
    [row EXCEPT !.currentMonth = snapshot.currentMonth,
                !.progress = snapshot.progress,
                !.status = IF snapshot.progress >= 100 THEN "completed" ELSE "running",
                !.hasPartial = snapshot.hasPartial,
                !.partialBalances = snapshot.partialBalances,
                !.taxes = snapshot.taxes]

NoBalances == [a \in AccountSet |-> 0]
NoTaxes == [tva |-> 0, urssaf |-> 0, netCashFlow |-> 0]

Snapshot(month, progress, hasPartial, partialBalances, taxes) ==
    [currentMonth |-> month, progress |-> progress, hasPartial |-> hasPartial,
     partialBalances |-> partialBalances, taxes |-> taxes]

\* one call of emitProgress, followed by a move to `next' or into the catch
\* block of runSimulation
Emit(snapshot, next) ==
    /\ IF hasSink
       THEN /\ emitCount' = emitCount + 1
            /\ published' = Append(published,
                                   [delivered |-> ~sinkRejects(emitCount + 1),
                                    doneBefore |-> workDone] @@ snapshot)
            /\ sim' = IF sinkRejects(emitCount + 1) THEN sim
                      ELSE updateSimulationProgress(sim, snapshot)
            /\ IF emitOutcome(sinkRejects(emitCount + 1)) = "throw"
               THEN /\ pc' = "e_catch"
                    /\ outcome' = [kind |-> "thrown", cause |-> "sink", detail |-> <<>>]
               ELSE /\ pc' = next
                    /\ UNCHANGED outcome
       ELSE /\ pc' = next
            /\ UNCHANGED <<emitCount, published, sim, outcome>>

(***************************************************************************)
(* engine.ts: the month loop of runSimulation                              *)
(***************************************************************************)
\* month under which the loop groups an occurrence: new Date(date).getMonth() + 1.
\* A date-only string is parsed as midnight UTC and getMonth() reads it in
\* local time, so west of UTC the first of a month falls in the month before.
groupMonth(o) ==
    IF tzWest /\ o.date.day = 1 THEN (IF o.date.month = 1 THEN 12 ELSE o.date.month - 1)
    ELSE o.date.month

\* indices (into occurrences) of monthlyOccurrences.get(month), in list order
monthIndices(month) ==
    LET InMonth(k) == groupMonth(occurrences[k]) = month
    IN SelectSeq([k \in 1..Len(occurrences) |-> k], InMonth)

RECURSIVE applyAll(_, _, _)
applyAll(idx, n, bm) ==
    IF n = 0 THEN bm
    ELSE applyOccurrenceToBalances(occurrences[idx[n]], applyAll(idx, n - 1, bm))

\* Occurrence declares accountPostings; the loop reads o.postings
hasPostings(o) == "postings" \in DOMAIN o

\* sum + o.postings.reduce(...) over the occurrences of one type; reduce is
\* called on undefined as soon as one occurrence of that type is visited
typeTotal(idx, type) ==
    LET OfType(k) == occurrences[k].type = type
        sel == SelectSeq(idx, OfType)
    IN IF \E n \in 1..Len(sel) : ~hasPostings(occurrences[sel[n]])
       THEN [threw |-> TRUE, value |-> 0]
       ELSE [threw |-> FALSE,
             value |-> Sum([n \in 1..Len(sel) |->
                              Sum([q \in 1..Len(occurrences[sel[n]].postings) |->
                                     occurrences[sel[n]].postings[q].amount])])]

\* urssaf is monthRevenue * 0.45, kept in hundredths of a cent
monthTaxes(idx, currentBalances) ==
    LET monthRevenue == typeTotal(idx, "revenue")
        monthExpenses == typeTotal(idx, "expense")
    IN [threw |-> monthRevenue.threw \/ monthExpenses.threw,
        value |-> [tva |-> Abs(currentBalances["vat"]),
                   urssaf |-> monthRevenue.value * 45,
                   netCashFlow |-> monthRevenue.value + monthExpenses.value]]

(***************************************************************************)
(* routes.ts / storage.ts: the simulations row and the progress stream     *)
(***************************************************************************)
NewSimulation ==
    [status |-> "running", progress |-> 0, currentMonth |-> 0,
     partialBalances |-> NoBalances, taxes |-> NoTaxes, hasPartial |-> FALSE,
     hasResults |-> FALSE, error |-> "", errorDetail |-> <<>>]

\* storage.getSimulationProgress: the columns it selects, with its defaults
getSimulationProgress(row) ==
    [status |-> row.status,
     currentMonth |-> IF row.currentMonth = 0 THEN 1 ELSE row.currentMonth,
     progress |-> row.progress,
     partialBalances |-> row.partialBalances,
     taxes |-> row.taxes]

\* the event sendProgressUpdate writes for a progress record
streamEvent(progress) ==
    [type |-> IF progress.status = "completed" THEN "completed"
              ELSE IF progress.status = "failed" THEN "error" ELSE "progress",
     data |-> progress]

\* monthlyBalances of the result: stable sort by fiscal index, then
\* a.account.localeCompare(b.account)
AccountsByName == <<"operating", "personal", "savings", "vat">>

sortedMonthlyBalances(bm, fiscalStartMonth) ==
    LET order == getFiscalMonthOrder(fiscalStartMonth)
    IN [k \in 1..48 |-> bm[AccountsByName[((k - 1) % 4) + 1]][order[((k - 1) \div 4) + 1]]]

resultsOf(in, bm, monthly, overall, occ) ==
    [kind |-> "results",
     year |-> in.year,
     fiscalStartMonth |-> in.fiscalStartMonth,
     monthlyBalances |-> sortedMonthlyBalances(bm, in.fiscalStartMonth),
     monthlyTotals |-> monthly,
     overallTotals |-> overall,
     totalOccurrences |-> Len(occ)]

SimulationResults == resultsOf(inputs, balanceMap, monthlyTotals, overallTotals, occurrences)

invariantErrors ==
    validateBalanceInvariants(balanceMap, inputs.startingBalances, inputs.fiscalStartMonth)
    \o validateRollForwardInvariants(balanceMap, inputs.fiscalStartMonth)
    \o validateVATInvariants(monthlyTotals, overallTotals)

(***************************************************************************)
(* Inputs of the run specifications                                        *)
(***************************************************************************)
GoodCompany ==
    [isNull |-> FALSE, id |-> "test-company-001", userId |-> "test-user-001",
     name |-> "Test Company SAS", legalForm |-> "sas", activitySector |-> "technology",
     hasCapital |-> TRUE, bankPartner |-> "Test Bank", fiscalYear |-> "calendar"]

\* companies that validateCompanyForSimulation rejects
BadCompanies ==
    { [GoodCompany EXCEPT !.bankPartner = ""],
      [GoodCompany EXCEPT !.activitySector = ""],
      [GoodCompany EXCEPT !.fiscalYear = "other"] }

\* companies the route turns away before it creates anything
RefusedCompanies ==
    { [GoodCompany EXCEPT !.isNull = TRUE],
      [GoodCompany EXCEPT !.userId = "another-user"],
      [GoodCompany EXCEPT !.legalForm = ""] }

Requester == "test-user-001"

ValidInputs ==
    { [year |-> 2024, fiscalStartMonth |-> s, hasStartingBalances |-> TRUE,
       startingBalances |-> sb] : s \in Months, sb \in StartingProfiles }

BadInputs ==
    { [year |-> y, fiscalStartMonth |-> s, hasStartingBalances |-> h,
       startingBalances |-> sb] :
         y \in {2019, 2024}, s \in {0, 4, 13}, h \in BOOLEAN, sb \in StartingProfiles }
    \ ValidInputs

RunStartMonths == {1, 8}
RunFrequencies == {"monthly", "quarterly", "yearly"}

PatternsOf(kind) ==
    { [frequency |-> f, startMonth |-> m] @@ p :
        p \in { q \in PatternKinds : q.kind = kind }, f \in RunFrequencies,
        m \in RunStartMonths }

\* pairs <<revenuePatterns, expensePatterns>> with at most MaxPatterns patterns
PatternChoices ==
    { pair \in SeqsUpTo(PatternsOf("revenue"), MaxPatterns)
               \X SeqsUpTo(PatternsOf("expense"), MaxPatterns) :
        Len(pair[1]) + Len(pair[2]) <= MaxPatterns }

\* the sink rejects one call, or every call
SinkFailures == { {n} : n \in 1..Emissions } \cup { 1..Emissions }

RunStart ==
    /\ pc = IF caller = "route" THEN "r_start" ELSE "e_validate"
    /\ occurrences = <<>>
    /\ balanceMap = NoValue
    /\ applied = <<>>
    /\ loopIndex = 0
    /\ emitCount = 0
    /\ published = <<>>
    /\ workDone = {}
    /\ monthlyTotals = NoValue
    /\ overallTotals = NoValue
    /\ outcome = NoValue
    /\ sim = NoValue
    /\ savedBalances = 0
    /\ response = NoValue
    /\ NoSubscriber /\ NoRequest /\ cancel = FALSE

\* valid inputs, any patterns, either caller, either side of UTC, a sound sink
BaselineInit ==
    /\ caller \in {"route", "test"}
    /\ inputs \in ValidInputs
    /\ company = GoodCompany
    /\ \E pair \in PatternChoices : revenuePatterns = pair[1] /\ expensePatterns = pair[2]
    /\ tzWest \in BOOLEAN
    /\ tzEast = FALSE
    /\ sinkFailAt = {}

\* the same runs through the route, with a sink that rejects one call or all of them
SinkFailInit ==
    /\ caller = "route"
    /\ inputs \in ValidInputs
    /\ company = GoodCompany
    /\ \E pair \in { q \in PatternChoices : Len(q[1]) + Len(q[2]) = 0
                                            \/ (Len(q[1]) = 1 /\ Len(q[2]) = 0
                                                /\ q[1][1].frequency = "yearly") } :
          revenuePatterns = pair[1] /\ expensePatterns = pair[2]
    /\ tzWest = FALSE
    /\ tzEast = FALSE
    /\ sinkFailAt \in SinkFailures

\* inputs or a company that validation rejects, or that the route refuses
InvalidInit ==
    /\ caller \in {"route", "test"}
    /\ \/ inputs \in BadInputs /\ company = GoodCompany
       \/ inputs \in { i \in ValidInputs : i.fiscalStartMonth = 4 }
          /\ company \in BadCompanies \cup RefusedCompanies
    /\ \E pair \in { q \in PatternChoices : Len(q[2]) = 0
                                            /\ \A k \in 1..Len(q[1]) :
                                                 q[1][k].frequency = "yearly" } :
          revenuePatterns = pair[1] /\ expensePatterns = pair[2]
    /\ tzWest = FALSE
    /\ tzEast = FALSE
    /\ sinkFailAt = {}

Init == (BaselineInit \/ SinkFailInit \/ InvalidInit) /\ RunStart

(***************************************************************************)
(* routes.ts: POST /api/companies/:companyId/simulations                   *)
(***************************************************************************)
\* lines 271-312: refuse, or create the simulations row and enter the engine
RouteStart ==
    /\ pc = "r_start"
    /\ IF company.isNull
       THEN response' = [code |-> 404, error |-> "COMPANY_NOT_FOUND"]
            /\ pc' = "end" /\ UNCHANGED sim
       ELSE IF company.userId # Requester
       THEN response' = [code |-> 403, error |-> "UNAUTHORIZED_COMPANY_ACCESS"]
            /\ pc' = "end" /\ UNCHANGED sim
       ELSE IF company.name = "" \/ company.legalForm = ""
       THEN response' = [code |-> 400, error |-> "COMPANY_INCOMPLETE"]
            /\ pc' = "end" /\ UNCHANGED sim
       ELSE sim' = NewSimulation /\ pc' = "e_validate" /\ UNCHANGED response
    /\ UNCHANGED <<inputVars, outsideVars, occurrences, balanceMap, applied, loopIndex, emitCount,
                   published, workDone, monthlyTotals, overallTotals, outcome,
                   savedBalances>>

\* lines 369-381: one account_balances row per monthly balance
RouteSave ==
    /\ pc = "r_save"
    /\ savedBalances' = Len(outcome.monthlyBalances)
    /\ pc' = "r_complete"
    /\ UNCHANGED <<inputVars, outsideVars, occurrences, balanceMap, applied, loopIndex, emitCount,
                   published, workDone, monthlyTotals, overallTotals, outcome, sim,
                   response>>

\* lines 383-412
RouteComplete ==
    /\ pc = "r_complete"
    /\ sim' = [sim EXCEPT !.status = "completed", !.hasResults = TRUE]
    /\ response' = [code |-> 201, error |-> ""]
    /\ pc' = "end"
    /\ UNCHANGED <<inputVars, outsideVars, occurrences, balanceMap, applied, loopIndex, emitCount,
                   published, workDone, monthlyTotals, overallTotals, outcome,
                   savedBalances>>

\* lines 414-446: mark the row failed with the message, answer 500
RouteCatch ==
    /\ pc = "r_catch"
    /\ sim' = [sim EXCEPT !.status = "failed", !.error = outcome.cause,
                          !.errorDetail = outcome.detail]
    /\ response' = [code |-> 500, error |-> outcome.cause]
    /\ pc' = "end"
    /\ UNCHANGED <<inputVars, outsideVars, occurrences, balanceMap, applied, loopIndex, emitCount,
                   published, workDone, monthlyTotals, overallTotals, outcome,
                   savedBalances>>

(***************************************************************************)
(* engine.ts: runSimulation                                                *)
(***************************************************************************)
ReturnTo == IF caller = "route" THEN "r_catch" ELSE "end"

Validate_skipped ==
    /\ pc = "e_validate"
    /\ pc' = "e_emit10"
    /\ UNCHANGED <<inputVars, outsideVars, occurrences, balanceMap, applied, loopIndex, emitCount,
                   published, workDone, monthlyTotals, overallTotals, outcome, sim,
                   savedBalances, response>>

\* lines 687-703: validation throws outside the try block
Validate ==
    /\ pc = "e_validate"
    /\ IF allValidationErrors # <<>>
       THEN /\ outcome' = [kind |-> "error", cause |-> "validation",
                           detail |-> allValidationErrors]
            /\ pc' = ReturnTo
       ELSE /\ pc' = "e_emit10"
            /\ UNCHANGED outcome
    /\ UNCHANGED <<inputVars, outsideVars, occurrences, balanceMap, applied, loopIndex, emitCount,
                   published, workDone, monthlyTotals, overallTotals, sim,
                   savedBalances, response>>

\* line 724
Emit10 ==
    /\ pc = "e_emit10"
    /\ Emit(Snapshot(1, 10, FALSE, NoBalances, NoTaxes), "e_expand")
    /\ UNCHANGED <<inputVars, outsideVars, occurrences, balanceMap, applied, loopIndex, workDone,
                   monthlyTotals, overallTotals, savedBalances, response>>

\* lines 726-731
Expand ==
    /\ pc = "e_expand"
    /\ occurrences' = expandAllPatterns(revenuePatterns, expensePatterns)
    /\ workDone' = workDone \cup {"expand"}
    /\ pc' = "e_emit20"
    /\ UNCHANGED <<inputVars, outsideVars, balanceMap, applied, loopIndex, emitCount, published,
                   monthlyTotals, overallTotals, outcome, sim, savedBalances, response>>

\* line 734
Emit20 ==
    /\ pc = "e_emit20"
    /\ Emit(Snapshot(1, 20, FALSE, NoBalances, NoTaxes), "e_seed")
    /\ UNCHANGED <<inputVars, outsideVars, occurrences, balanceMap, applied, loopIndex, workDone,
                   monthlyTotals, overallTotals, savedBalances, response>>

\* lines 736-749
Seed ==
    /\ pc = "e_seed"
    /\ balanceMap' = createInitialBalances(inputs.startingBalances, inputs.fiscalStartMonth)
    /\ workDone' = workDone \cup {"seed"}
    /\ loopIndex' = 0
    /\ pc' = "e_month"
    /\ UNCHANGED <<inputVars, outsideVars, occurrences, applied, emitCount, published, monthlyTotals,
                   overallTotals, outcome, sim, savedBalances, response>>

\* lines 752-794: one iteration of the month loop
MonthStep ==
    /\ pc = "e_month"
    /\ LET month == getFiscalMonthOrder(inputs.fiscalStartMonth)[loopIndex + 1]
           idx == monthIndices(month)
           posted == applyAll(idx, Len(idx), balanceMap)
           currentBalances == [a \in AccountSet |-> posted[a][month].closingBalance]
           taxes == monthTaxes(idx, currentBalances)
       IN /\ balanceMap' = posted
          /\ applied' = applied \o idx
          /\ IF taxes.threw
             THEN /\ pc' = "e_catch"
                  /\ outcome' = [kind |-> "thrown", cause |-> "TypeError", detail |-> <<>>]
                  /\ UNCHANGED <<loopIndex, workDone, emitCount, published, sim>>
             ELSE /\ loopIndex' = loopIndex + 1
                  /\ workDone' = IF loopIndex + 1 = 12 THEN workDone \cup {"postings"}
                                 ELSE workDone
                  /\ Emit(Snapshot(month, monthProgress(loopIndex), TRUE,
                                   currentBalances, taxes.value),
                          IF loopIndex + 1 < 12 THEN "e_month" ELSE "e_emit85")
    /\ UNCHANGED <<inputVars, outsideVars, occurrences, monthlyTotals, overallTotals, savedBalances,
                   response>>

Emit85_labelled90 ==
    /\ pc = "e_emit85"
    /\ Emit(Snapshot(12, 90, FALSE, NoBalances, NoTaxes), "e_finalize")
    /\ UNCHANGED <<inputVars, outsideVars, occurrences, balanceMap, applied, loopIndex, workDone,
                   monthlyTotals, overallTotals, savedBalances, response>>

\* line 797
Emit85 ==
    /\ pc = "e_emit85"
    /\ Emit(Snapshot(12, 85, FALSE, NoBalances, NoTaxes), "e_finalize")
    /\ UNCHANGED <<inputVars, outsideVars, occurrences, balanceMap, applied, loopIndex, workDone,
                   monthlyTotals, overallTotals, savedBalances, response>>

\* line 798
Finalize ==
    /\ pc = "e_finalize"
    /\ balanceMap' = finalizeBalances(balanceMap, inputs.fiscalStartMonth)
    /\ workDone' = workDone \cup {"rollForward"}
    /\ pc' = "e_emit90"
    /\ UNCHANGED <<inputVars, outsideVars, occurrences, applied, loopIndex, emitCount, published,
                   monthlyTotals, overallTotals, outcome, sim, savedBalances, response>>

\* line 801
Emit90 ==
    /\ pc = "e_emit90"
    /\ Emit(Snapshot(12, 90, FALSE, NoBalances, NoTaxes), "e_monthly")
    /\ UNCHANGED <<inputVars, outsideVars, occurrences, balanceMap, applied, loopIndex, workDone,
                   monthlyTotals, overallTotals, savedBalances, response>>

\* line 802
Summaries ==
    /\ pc = "e_monthly"
    /\ monthlyTotals' = calculateMonthlySummaries(balanceMap, occurrences,
                                                  inputs.fiscalStartMonth)
    /\ workDone' = workDone \cup {"monthly"}
    /\ pc' = "e_emit95"
    /\ UNCHANGED <<inputVars, outsideVars, occurrences, balanceMap, applied, loopIndex, emitCount,
                   published, overallTotals, outcome, sim, savedBalances, response>>

\* line 805
Emit95 ==
    /\ pc = "e_emit95"
    /\ Emit(Snapshot(12, 95, FALSE, NoBalances, NoTaxes), "e_overall")
    /\ UNCHANGED <<inputVars, outsideVars, occurrences, balanceMap, applied, loopIndex, workDone,
                   monthlyTotals, overallTotals, savedBalances, response>>

\* line 806
Overall ==
    /\ pc = "e_overall"
    /\ overallTotals' = calculateOverallSummary(monthlyTotals)
    /\ workDone' = workDone \cup {"overall"}
    /\ pc' = "e_check"
    /\ UNCHANGED <<inputVars, outsideVars, occurrences, balanceMap, applied, loopIndex, emitCount,
                   published, monthlyTotals, outcome, sim, savedBalances, response>>

\* lines 808-863: the invariant checks; no snapshot is emitted when they fail
CheckInvariants ==
    /\ pc = "e_check"
    /\ IF invariantErrors # <<>>
       THEN /\ pc' = "e_catch"
            /\ outcome' = [kind |-> "thrown", cause |-> "invariant",
                           detail |-> invariantErrors]
       ELSE /\ pc' = "e_emit100"
            /\ UNCHANGED outcome
    /\ workDone' = workDone \cup {"check"}
    /\ UNCHANGED <<inputVars, outsideVars, occurrences, balanceMap, applied, loopIndex, emitCount,
                   published, monthlyTotals, overallTotals, sim, savedBalances, response>>

\* line 866
Emit100 ==
    /\ pc = "e_emit100"
    /\ Emit(Snapshot(12, 100, FALSE, NoBalances, NoTaxes), "e_return")
    /\ UNCHANGED <<inputVars, outsideVars, occurrences, balanceMap, applied, loopIndex, workDone,
                   monthlyTotals, overallTotals, savedBalances, response>>

\* lines 868-879
Return ==
    /\ pc = "e_return"
    /\ outcome' = SimulationResults
    /\ pc' = IF caller = "route" THEN "r_save" ELSE "end"
    /\ UNCHANGED <<inputVars, outsideVars, occurrences, balanceMap, applied, loopIndex, emitCount,
                   published, workDone, monthlyTotals, overallTotals, sim, savedBalances,
                   response>>

\* lines 881-884: whatever was thrown inside the try block is wrapped and rethrown
EngineCatch ==
    /\ pc = "e_catch"
    /\ outcome' = [outcome EXCEPT !.kind = "error"]
    /\ pc' = ReturnTo
    /\ UNCHANGED <<inputVars, outsideVars, occurrences, balanceMap, applied, loopIndex, emitCount,
                   published, workDone, monthlyTotals, overallTotals, sim, savedBalances,
                   response>>

Next ==
    \/ RouteStart \/ RouteSave \/ RouteComplete \/ RouteCatch
    \/ Validate \/ Emit10 \/ Expand \/ Emit20 \/ Seed \/ MonthStep
    \/ Emit85 \/ Finalize \/ Emit90 \/ Summaries \/ Emit95 \/ Overall
    \/ CheckInvariants \/ Emit100 \/ Return \/ EngineCatch

Spec == Init /\ [][Next]_vars

Terminated == pc = "end"

(***************************************************************************)
(* The run with an injected invariant violation: between the overall       *)
(* summary and the invariant checks one closing balance of the ledger is   *)
(* moved by five euros.                                                    *)
(***************************************************************************)
InjectFault ==
    /\ pc = "e_check"
    /\ "fault" \notin workDone
    /\ \E a \in {"operating", "vat"} :
          balanceMap' = [balanceMap EXCEPT ![a][LastFiscalMonth].closingBalance = @ + 500]
    /\ workDone' = workDone \cup {"fault"}
    /\ UNCHANGED <<inputVars, outsideVars, pc, occurrences, applied, loopIndex, emitCount, published,
                   monthlyTotals, overallTotals, outcome, sim, savedBalances, response>>

FaultNext == Next \/ InjectFault

FaultSpec == Init /\ [][FaultNext]_vars

(***************************************************************************)
(* Vocabulary of the claims about a run                                    *)
(***************************************************************************)
\* the route answered before it started a run
Refused == response # NoValue /\ response.code \in {400, 403, 404}

Succeeded == outcome # NoValue /\ outcome.kind = "results"

FailedWith(cause) == outcome # NoValue /\ outcome.kind = "error" /\ outcome.cause = cause

NoPatterns == revenuePatterns = <<>> /\ expensePatterns = <<>>

ProgressValues == [k \in 1..Len(published) |-> published[k].progress]

(***************************************************************************)
(* C4: for every valid input, also one whose patterns expand to at least   *)
(* one occurrence, runSimulation ends by returning a SimulationResults     *)
(* value, and with a sound sink its last published snapshot is the         *)
(* completed one at progress 100.                                          *)
(***************************************************************************)
C4_ValidRunCompletes ==
    (Terminated /\ ~Refused /\ allValidationErrors = <<>>) =>
        /\ Succeeded
        /\ (caller = "route" /\ sinkFailAt = {}) =>
              /\ published # <<>>
              /\ published[Len(published)].progress = 100
              /\ sim.status = "completed"

(***************************************************************************)
(* C5 (P4): a run with the empty pattern set returns twelve monthly        *)
(* summaries, each with zero revenue, zero expenses and zero VAT, and for  *)
(* every account the closing balance of every month is the account's       *)
(* starting balance.                                                       *)
(***************************************************************************)
C5_EmptyPatternSet ==
    (Terminated /\ ~Refused /\ allValidationErrors = <<>> /\ NoPatterns) =>
        /\ Succeeded
        /\ Len(outcome.monthlyTotals) = 12
        /\ \A k \in 1..12 :
              LET m == outcome.monthlyTotals[k]
              IN /\ m.revenue = [gross |-> 0, net |-> 0, vat |-> 0]
                 /\ m.expenses = [gross |-> 0, net |-> 0, vat |-> 0, deductibleVat |-> 0]
                 /\ m.netVatPosition = 0
                 /\ \A a \in AccountSet : m.accountBalances[a] = inputs.startingBalances[a]
        /\ Len(outcome.monthlyBalances) = 48
        /\ \A k \in 1..48 :
              outcome.monthlyBalances[k].closingBalance
                = inputs.startingBalances[outcome.monthlyBalances[k].account]
        /\ \A a \in AccountSet : \A m \in Months :
              balanceMap[a][m].closingBalance = inputs.startingBalances[a]

C5_Witness ==
    /\ Terminated
    /\ NoPatterns
    /\ Succeeded
    /\ inputs.fiscalStartMonth = 7
    /\ inputs.startingBalances["vat"] # 0

(***************************************************************************)
(* C6: in a successful run with a progress sink the published progress     *)
(* values are 10, 20, then 20 + 60*k/12 for k = 1..12, each with the k-th  *)
(* fiscal month as its current month, then 85, 90, 95 and last 100; the    *)
(* sequence never decreases.                                               *)
(***************************************************************************)
C6_ProgressSequence ==
    (Terminated /\ caller = "route" /\ Succeeded) =>
        /\ ProgressValues = <<10, 20, 25, 30, 35, 40, 45, 50, 55, 60, 65, 70, 75, 80,
                              85, 90, 95, 100>>
        /\ \A k \in 1..12 : /\ published[2 + k].progress * 12 = 20 * 12 + 60 * k
                            /\ published[2 + k].currentMonth = FiscalMonthAt(k)
        /\ \A i, j \in 1..Len(published) :
              i <= j => published[i].progress <= published[j].progress

C6_Witness ==
    /\ Terminated
    /\ caller = "route"
    /\ Succeeded
    /\ inputs.fiscalStartMonth = 10
    /\ Len(published) = Emissions

C8_FailureOnStream ==
    (Terminated /\ caller = "route" /\ FailedWith("invariant")) =>
        /\ sim.status = "failed"
        /\ response.code = 500
        /\ LET event == streamEvent(getSimulationProgress(sim))
           IN /\ event.type = "error"
              /\ "message" \in DOMAIN event.data

(***************************************************************************)
(* C9, as stated: when validation of the inputs or of the company fails,   *)
(* no snapshot is published, no pattern is expanded, no ledger is built    *)
(* and no simulation state is left behind.                                 *)
(***************************************************************************)
C9_NothingCreated ==
    FailedWith("validation") =>
        /\ published = <<>>
        /\ occurrences = <<>>
        /\ balanceMap = NoValue
        /\ sim = NoValue

(***************************************************************************)
(* C9, amended: when validation of the inputs or of the company fails, the *)
(* error is returned before the engine creates anything - no snapshot is   *)
(* published, no pattern is expanded, no ledger is built; the simulations  *)
(* row the POST route created before it called the engine is not removed.  *)
(***************************************************************************)
C9_ValidationFirst ==
    (allValidationErrors # <<>> /\ ~Refused) =>
        /\ published = <<>>
        /\ occurrences = <<>>
        /\ balanceMap = NoValue
        /\ monthlyTotals = NoValue
        /\ savedBalances = 0
        /\ Terminated =>
              /\ FailedWith("validation")
              /\ caller = "route" => (sim # NoValue /\ response.code = 500)
              /\ caller = "test" => sim = NoValue

C9_Witness ==
    /\ Terminated
    /\ caller = "route"
    /\ FailedWith("validation")
    /\ company.bankPartner = ""
    /\ sim # NoValue

(***************************************************************************)
(* C10: a rejection of the progress sink at any emission never aborts the  *)
(* run - runSimulation ends with the outcome that the inputs alone         *)
(* determine, the one it has with a sink that never fails.                 *)
(***************************************************************************)
SoundOutcome ==
    IF allValidationErrors # <<>>
    THEN [kind |-> "error", cause |-> "validation", detail |-> allValidationErrors]
    ELSE LET s == inputs.fiscalStartMonth
             occ == expandAllPatterns(revenuePatterns, expensePatterns)
             ledger == finalizeBalances(createInitialBalances(inputs.startingBalances, s), s)
             monthly == calculateMonthlySummaries(ledger, occ, s)
         IN IF occ # <<>>
            THEN [kind |-> "error", cause |-> "TypeError", detail |-> <<>>]
            ELSE resultsOf(inputs, ledger, monthly, calculateOverallSummary(monthly), occ)

C10_SinkFailureHarmless ==
    (Terminated /\ ~Refused) =>
        /\ outcome = SoundOutcome
        /\ ~FailedWith("sink")

C10_Witness ==
    /\ Terminated
    /\ Succeeded
    /\ Len(published) = Emissions
    /\ \E k \in 1..Emissions : ~published[k].delivered /\ published[k].progress = 100

(***************************************************************************)
(* routes.ts: GET /api/simulations/:id/stream, one subscriber              *)
(***************************************************************************)
MaxInFlight == 2      \* polls that have read the row and not resumed yet
MaxEvents == 3        \* events written to one response
MaxWatchedMonths == 1 \* month steps of the run before whose end the subscriber may attach

IsTerminalStatus(status) == status \in {"completed", "failed"}

\* lines 486-526, 564-579: the simulation exists and the requester owns its
\* company; the handler writes the stored progress as a `progress' event and
\* starts the poll and heartbeat timers
StreamAttach ==
    /\ stream.state = "none"
    /\ sim # NoValue
    /\ loopIndex >= 12 - MaxWatchedMonths
    /\ company.userId = Requester
    /\ LET initialProgress == getSimulationProgress(sim)
       IN /\ events' = <<[type |-> "progress", data |-> initialProgress]>>
          /\ stream' = [state |-> "open", polling |-> TRUE, heartbeat |-> TRUE,
                        lastProgress |-> initialProgress.progress,
                        lastStatus |-> initialProgress.status]
    /\ UNCHANGED <<inputVars, accessVars, cancel, pc, occurrences, balanceMap, applied, loopIndex, emitCount,
                   published, workDone, monthlyTotals, overallTotals, outcome, sim,
                   savedBalances, response, inflight>>

\* lines 528-530, 561: the interval fires and sendProgressUpdate awaits
\* storage.getSimulationProgress; the interval does not wait for an earlier
\* call to finish
StreamPollRead ==
    /\ stream.state = "open"
    /\ stream.polling
    /\ Len(inflight) < MaxInFlight
    /\ inflight' = Append(inflight, getSimulationProgress(sim))
    /\ UNCHANGED <<inputVars, accessVars, cancel, pc, occurrences, balanceMap, applied, loopIndex, emitCount,
                   published, workDone, monthlyTotals, overallTotals, outcome, sim,
                   savedBalances, response, stream, events>>

RemoveAt(seq, i) == SubSeq(seq, 1, i - 1) \o SubSeq(seq, i + 1, Len(seq))

\* lines 531-549: one awaiting sendProgressUpdate resumes with what it read;
\* the reads go through a connection pool and resume in any order
StreamPollDeliver ==
    /\ \E i \in 1..Len(inflight) :
          LET progress == inflight[i]
              changed == progress.progress # stream.lastProgress
                         \/ progress.status # stream.lastStatus
          IN /\ inflight' = RemoveAt(inflight, i)
             /\ IF stream.state = "open" /\ changed
                THEN /\ Len(events) < MaxEvents
                     /\ events' = Append(events, streamEvent(progress))
                     /\ stream' = [stream EXCEPT
                                     !.lastProgress = progress.progress,
                                     !.lastStatus = progress.status,
                                     !.polling = IF IsTerminalStatus(progress.status)
                                                 THEN FALSE ELSE @]
                ELSE UNCHANGED <<stream, events>>
    /\ UNCHANGED <<inputVars, accessVars, cancel, pc, occurrences, balanceMap, applied, loopIndex, emitCount,
                   published, workDone, monthlyTotals, overallTotals, outcome, sim,
                   savedBalances, response>>

\* lines 572-574: the heartbeat interval, cleared only when the client closes
StreamHeartbeat ==
    /\ stream.state = "open"
    /\ stream.heartbeat
    /\ Len(events) < MaxEvents
    /\ events' = Append(events, [type |-> "heartbeat"])
    /\ UNCHANGED <<inputVars, accessVars, cancel, pc, occurrences, balanceMap, applied, loopIndex, emitCount,
                   published, workDone, monthlyTotals, overallTotals, outcome, sim,
                   savedBalances, response, stream, inflight>>

\* lines 564-579: the client goes away; both intervals are cleared and the
\* response is ended.  The client of the repository (SimulationPage) closes
\* its EventSource when it is handed a `completed' or an `error' event.
StreamClientClose ==
    /\ stream.state = "open"
    /\ \E k \in 1..Len(events) : events[k].type \in {"completed", "error"}
    /\ stream' = [stream EXCEPT !.state = "closed", !.polling = FALSE,
                                !.heartbeat = FALSE]
    /\ UNCHANGED <<inputVars, accessVars, cancel, pc, occurrences, balanceMap, applied, loopIndex, emitCount,
                   published, workDone, monthlyTotals, overallTotals, outcome, sim,
                   savedBalances, response, inflight, events>>

\* route runs that complete, or fail in their last fiscal month, watched by
\* a subscriber
StreamInit ==
    /\ caller = "route"
    /\ inputs \in { i \in ValidInputs : i.fiscalStartMonth = 9 }
    /\ company = GoodCompany
    /\ \E pair \in { q \in PatternChoices :
                        \/ Len(q[1]) + Len(q[2]) = 0
                        \/ /\ Len(q[1]) = 1 /\ Len(q[2]) = 0
                           /\ q[1][1].frequency = "yearly" /\ q[1][1].startMonth = 8
                           /\ q[1][1].vatRate = 200 } :
          revenuePatterns = pair[1] /\ expensePatterns = pair[2]
    /\ tzWest = FALSE
    /\ tzEast = FALSE
    /\ sinkFailAt \in {{}, {Emissions}}
    /\ RunStart

StreamNext ==
    \/ Next
    \/ StreamAttach \/ StreamPollRead \/ StreamPollDeliver \/ StreamHeartbeat
    \/ StreamClientClose

StreamSpec == StreamInit /\ [][StreamNext]_vars

(***************************************************************************)
(* Vocabulary of the claims about the stream                               *)
(***************************************************************************)
IsSnapshotEvent(e) == e.type \in {"progress", "completed", "error"}

IsTerminalEvent(e) == e.type \in {"completed", "error"}

TerminalEventsSent == { k \in 1..Len(events) : IsTerminalEvent(events[k]) }

(***************************************************************************)
(* C11: the subscriber of a simulation's stream is sent that simulation's  *)
(* snapshots in non-decreasing progress order, however the producer's      *)
(* writes and the stream's polls interleave.                               *)
(***************************************************************************)
C11_StreamNonDecreasing ==
    \A i, j \in 1..Len(events) :
        (i < j /\ IsSnapshotEvent(events[i]) /\ IsSnapshotEvent(events[j])) =>
            events[i].data.progress <= events[j].data.progress

(***************************************************************************)
(* C12: a subscriber that stays connected is sent a terminal event         *)
(* (completed or error) and is then detached, whether it attached during   *)
(* the run or after the run had ended.  Stated on the handler's own        *)
(* record: once the handler holds a terminal status as the last one it     *)
(* sent, it sends nothing more for this simulation, so by then a terminal  *)
(* event has been written and the poll timer is stopped.                   *)
(***************************************************************************)
C12_TerminalEventDelivered ==
    (stream.state = "open" /\ IsTerminalStatus(stream.lastStatus)) =>
        /\ TerminalEventsSent # {}
        /\ ~stream.polling

(***************************************************************************)
(* C13: once a terminal event (completed or error) has been written to a   *)
(* stream, nothing further is written to it - the terminal event is the    *)
(* only one of its kind and the last event, with no progress or heartbeat  *)
(* event after it.                                                         *)
(***************************************************************************)
C13_NothingAfterTerminal ==
    \A k \in TerminalEventsSent : k = Len(events)

(***************************************************************************)
(* The route with a storage that can reject a write while the results are  *)
(* persisted (routes.ts lines 358-392) or while the failure is recorded    *)
(* (lines 418-431).                                                        *)
(***************************************************************************)
\* account_balances rows that were inserted when Promise.all rejects
PartialSaves == {0, 1, 47}

PersistenceError == [kind |-> "error", cause |-> "persistence", detail |-> <<>>]

\* lines 358-381: generateFinancialReport throws, or one saveAccountBalance
\* rejects while other inserts of the same Promise.all succeed
RouteSaveFails ==
    /\ pc = "r_save"
    /\ savedBalances' \in PartialSaves
    /\ outcome' = PersistenceError
    /\ pc' = "r_catch"
    /\ UNCHANGED <<inputVars, outsideVars, occurrences, balanceMap, applied, loopIndex,
                   emitCount, published, workDone, monthlyTotals, overallTotals, sim,
                   response>>

\* lines 383-392: updateSimulation rejects after every balance was inserted
RouteCompleteFails ==
    /\ pc = "r_complete"
    /\ outcome' = PersistenceError
    /\ pc' = "r_catch"
    /\ UNCHANGED <<inputVars, outsideVars, occurrences, balanceMap, applied, loopIndex,
                   emitCount, published, workDone, monthlyTotals, overallTotals, sim,
                   savedBalances, response>>

\* lines 418-433: the update to status failed rejects too; it is logged and
\* the error is rethrown
RouteCatchUpdateFails ==
    /\ pc = "r_catch"
    /\ response' = [code |-> 500, error |-> outcome.cause]
    /\ pc' = "end"
    /\ UNCHANGED <<inputVars, outsideVars, occurrences, balanceMap, applied, loopIndex,
                   emitCount, published, workDone, monthlyTotals, overallTotals, outcome,
                   sim, savedBalances>>

PersistNext == Next \/ RouteSaveFails \/ RouteCompleteFails \/ RouteCatchUpdateFails

PersistSpec == Init /\ [][PersistNext]_vars

(***************************************************************************)
(* C14: when a run ends in failure after validation, also while its        *)
(* results are persisted, nothing of its results stays visible: a          *)
(* simulation whose status is failed has no stored account balances, no    *)
(* stored results and no partial balances.                                 *)
(***************************************************************************)
C14_FailedRunLeavesNoResults ==
    (Terminated /\ sim # NoValue /\ sim.status = "failed"
       /\ ~FailedWith("validation")) =>
        /\ savedBalances = 0
        /\ ~sim.hasResults
        /\ ~sim.hasPartial

\* the part of C14 about stored account balances alone
C14_FailedRunHasNoBalances ==
    (Terminated /\ sim # NoValue /\ sim.status = "failed") => savedBalances = 0

(***************************************************************************)
(* Daily expansion on its own: one daily revenue pattern is drawn and      *)
(* expanded for the year.                                                  *)
(***************************************************************************)
MaxOverrides == 2

\* 1 May 2024 is a Wednesday and a holiday, 4 May a Saturday, 3 September a
\* plain Tuesday
OverrideDates == { [month |-> 5, day |-> 1], [month |-> 5, day |-> 4],
                   [month |-> 9, day |-> 3] }

DayOffOverrides == { [date |-> date, active |-> active] :
                        date \in OverrideDates, active \in BOOLEAN }

\* <<startDate, startMonth>>: no start date, a date of the year, of the year
\* before and of the year after
DailyStarts ==
    { <<NoDate, 1>>, <<NoDate, 8>>,
      <<[year |-> 2024, month |-> 3, day |-> 15], 1>>,
      <<[year |-> 2023, month |-> 6, day |-> 1], 1>>,
      <<[year |-> 2025, month |-> 1, day |-> 1], 1>> }

\* 62 is Monday to Friday
DailyMasks == {NoMask, 62}

DailyPatterns ==
    { [id |-> "rev-daily", kind |-> "revenue", frequency |-> "daily",
       amount |-> 12000, vatRate |-> 200, vatDeductible |-> FALSE,
       startMonth |-> start[2], startDate |-> start[1], daysMask |-> mask,
       excludeWeekends |-> weekends, excludeHolidays |-> hols,
       dayOffOverrides |-> overrides] :
        start \in DailyStarts, mask \in DailyMasks, weekends \in BOOLEAN,
        hols \in BOOLEAN, overrides \in SeqsUpTo(DayOffOverrides, MaxOverrides) }

DailyInit ==
    /\ caller = "expansion"
    /\ inputs \in { in \in ValidInputs : in.fiscalStartMonth = 1 }
    /\ company = GoodCompany
    /\ revenuePatterns \in { <<pattern>> : pattern \in DailyPatterns }
    /\ expensePatterns = <<>>
    /\ tzWest \in BOOLEAN
    /\ tzEast \in { east \in BOOLEAN : ~(east /\ tzWest) }
    /\ sinkFailAt = {}
    /\ pc = "d_expand"
    /\ occurrences = <<>>
    /\ balanceMap = NoValue
    /\ applied = <<>>
    /\ loopIndex = 0
    /\ emitCount = 0
    /\ published = <<>>
    /\ workDone = {}
    /\ monthlyTotals = NoValue
    /\ overallTotals = NoValue
    /\ outcome = NoValue
    /\ sim = NoValue
    /\ savedBalances = 0
    /\ response = NoValue
    /\ NoSubscriber /\ NoRequest /\ cancel = FALSE

DailyExpand ==
    /\ pc = "d_expand"
    /\ occurrences' = expandPattern(revenuePatterns[1])
    /\ workDone' = workDone \cup {"expand"}
    /\ pc' = "d_done"
    /\ UNCHANGED <<inputVars, outsideVars, balanceMap, applied, loopIndex, emitCount,
                   published, monthlyTotals, overallTotals, outcome, sim,
                   savedBalances, response>>

DailySpec == DailyInit /\ [][DailyExpand]_vars

Expanded == pc = "d_done"

hasOccurrenceOn(date) == \E k \in 1..Len(occurrences) : occurrences[k].date = date

\* C15: once a daily pattern is expanded for the year, every override
\* {date: D, active: true} of the pattern has an occurrence on D and every
\* override {date: D, active: false} has none, whatever daysMask,
\* excludeWeekends and excludeHolidays say about D.
C15_OverrideIsFinal ==
    Expanded =>
        \A k \in 1..Len(revenuePatterns[1].dayOffOverrides) :
            LET override == revenuePatterns[1].dayOffOverrides[k]
            IN hasOccurrenceOn(override.date) <=> override.active

(***************************************************************************)
(* integration-tests.ts: the scenarios of the test suite, taken through    *)
(* the engine's functions in the order runSimulation calls them: expand    *)
(* the patterns, seed the ledger, post the occurrences in date order, roll *)
(* forward, summarise.  `caller' names the test.                           *)
(***************************************************************************)
ScenarioPattern(id, kind, frequency, startMonth, amount, vatRate, vatDeductible) ==
    [id |-> id, kind |-> kind, frequency |-> frequency, startMonth |-> startMonth,
     amount |-> amount, vatRate |-> vatRate, vatDeductible |-> vatDeductible]

ScenarioBalances(operating, savings, personal, vat) ==
    [operating |-> operating, savings |-> savings, personal |-> personal, vat |-> vat]

Scenarios ==
    { [test |-> "testPureRevenuePattern", fiscalStartMonth |-> 1,
       startingBalances |-> ScenarioBalances(100000, 500000, 0, 0),
       revenue |-> << ScenarioPattern("rev-001", "revenue", "monthly", 1, 1200000, 200, FALSE),
                      ScenarioPattern("rev-002", "revenue", "quarterly", 3, 1500000, 200, FALSE) >>,
       expense |-> << >>],
      [test |-> "testPureExpensePattern", fiscalStartMonth |-> 1,
       startingBalances |-> ScenarioBalances(5000000, 500000, 0, 0),
       revenue |-> << >>,
       expense |-> << ScenarioPattern("exp-001", "expense", "monthly", 1, 240000, NoRate, TRUE),
                      ScenarioPattern("exp-002", "expense", "monthly", 1, 60000, NoRate, TRUE),
                      ScenarioPattern("exp-003", "expense", "quarterly", 1, 120000, NoRate, FALSE) >>],
      [test |-> "testMixedVATPattern", fiscalStartMonth |-> 4,
       startingBalances |-> ScenarioBalances(2000000, 1000000, 0, 0),
       revenue |-> << ScenarioPattern("rev-001", "revenue", "monthly", 4, 600000, 200, FALSE) >>,
       expense |-> << ScenarioPattern("exp-001", "expense", "monthly", 4, 120000, NoRate, TRUE),
                      ScenarioPattern("exp-002", "expense", "monthly", 4, 60000, NoRate, FALSE),
                      ScenarioPattern("exp-003", "expense", "quarterly", 4, 80000, NoRate, FALSE) >>],
      [test |-> "testRollForwardInvariants", fiscalStartMonth |-> 7,
       startingBalances |-> ScenarioBalances(1500000, 2500000, 500000, -200000),
       revenue |-> << ScenarioPattern("rev-001", "revenue", "monthly", 7, 360000, 200, FALSE) >>,
       expense |-> << ScenarioPattern("exp-001", "expense", "monthly", 7, 180000, NoRate, TRUE) >>] }

ScenarioInit ==
    \E scenario \in Scenarios :
        /\ caller = scenario.test
        /\ inputs = [year |-> 2024, fiscalStartMonth |-> scenario.fiscalStartMonth,
                     hasStartingBalances |-> TRUE,
                     startingBalances |-> scenario.startingBalances]
        /\ company = [GoodCompany EXCEPT
                         !.fiscalYear = IF scenario.fiscalStartMonth = 1
                                        THEN "calendar" ELSE "fiscal"]
        /\ revenuePatterns = scenario.revenue
        /\ expensePatterns = scenario.expense
        /\ tzWest = FALSE
        /\ tzEast = FALSE
        /\ sinkFailAt = {}
        /\ pc = "s_expand"
        /\ occurrences = <<>>
        /\ balanceMap = NoValue
        /\ applied = <<>>
        /\ loopIndex = 0
        /\ emitCount = 0
        /\ published = <<>>
        /\ workDone = {}
        /\ monthlyTotals = NoValue
        /\ overallTotals = NoValue
        /\ outcome = NoValue
        /\ sim = NoValue
        /\ savedBalances = 0
        /\ response = NoValue
        /\ NoSubscriber /\ NoRequest /\ cancel = FALSE

ScenarioExpand ==
    /\ pc = "s_expand"
    /\ occurrences' = expandAllPatterns(revenuePatterns, expensePatterns)
    /\ workDone' = workDone \cup {"expand"}
    /\ pc' = "l_seed"
    /\ UNCHANGED <<inputVars, outsideVars, balanceMap, applied, loopIndex, emitCount,
                   published, monthlyTotals, overallTotals, outcome, sim,
                   savedBalances, response>>

\* the occurrences are posted one by one in the order of the sorted list
ScenarioPost ==
    /\ pc = "l_apply"
    /\ Len(applied) < Len(occurrences)
    /\ balanceMap' = applyOccurrenceToBalances(occurrences[Len(applied) + 1], balanceMap)
    /\ applied' = Append(applied, Len(applied) + 1)
    /\ UNCHANGED <<inputVars, outsideVars, pc, occurrences, loopIndex, emitCount, published,
                   workDone, monthlyTotals, overallTotals, outcome, sim, savedBalances,
                   response>>

ScenarioNext ==
    ScenarioExpand \/ LSeed \/ ScenarioPost \/ LFinalize \/ LSummaries \/ LOverall

ScenarioSpec == ScenarioInit /\ [][ScenarioNext]_vars

Summarised == pc = "l_done"

occurrencesOf(patternId, month) ==
    { k \in 1..Len(occurrences) :
        occurrences[k].patternId = patternId /\ occurrences[k].date.month = month }

ConservationTolerance == 500

SumOfAccounts(balances) == Sum([k \in 1..Len(AccountsByName) |-> balances[AccountsByName[k]]])

MonthlyTotalsComputed == pc \in {"l_summarized", "l_done"}

\* C19: for every fiscalStartMonth s in 1..12, monthlyTotals lists each
\* calendar month 1..12 exactly once in fiscal order: element k (0-based) is
\* month ((s - 1 + k) mod 12) + 1, so the first element is month s and the
\* last is the month that precedes s.
C19_MonthlyTotalsFiscalOrder ==
    MonthlyTotalsComputed =>
        /\ Len(monthlyTotals) = 12
        /\ \A k \in 0..11 :
              monthlyTotals[k + 1].month = ((inputs.fiscalStartMonth - 1 + k) % 12) + 1
        /\ \A month \in Months :
              Cardinality({ k \in 1..12 : monthlyTotals[k].month = month }) = 1
        /\ monthlyTotals[1].month = inputs.fiscalStartMonth
        /\ monthlyTotals[12].month = PriorMonth(inputs.fiscalStartMonth)

\* a July fiscal year with postings: the list starts at 7 and ends at 6
C19_Witness ==
    /\ pc = "l_done"
    /\ caller = "ledger"
    /\ inputs.fiscalStartMonth = 7
    /\ Len(applied) = MaxOcc
    /\ monthlyTotals[1].month = 7
    /\ monthlyTotals[12].month = 6

(***************************************************************************)
(* routes.ts: PUT and DELETE of revenue and expense patterns.  Every       *)
(* request comes from an authenticated user and names a company and a      *)
(* pattern id in its path.                                                 *)
(***************************************************************************)
CompanyIds == DOMAIN StoredCompanies \cup {"no-such-company"}

PatternIds == DOMAIN StoredPatterns

\* the bodies of PUT: a new amount, with or without a companyId
UpdateBodies ==
    { [amount |-> amount, companyId |-> companyId] :
        amount \in {500000, 700000},
        companyId \in {"unchanged", "test-company-001", "test-company-002"} }

\* storage.getCompany followed by the route's ownership test
ownsCompany(userId, companyId) ==
    companyId \in DOMAIN companyOwner /\ companyOwner[companyId] = userId

\* db.update(table).set(pattern).where(eq(table.id, id))
updatePattern(table, id, body) ==
    IF ~patternTable[id].deleted /\ patternTable[id].table = table
    THEN [patternTable EXCEPT ![id].amount = body.amount,
                              ![id].companyId = IF body.companyId = "unchanged"
                                                THEN @ ELSE body.companyId]
    ELSE patternTable

\* db.delete(table).where(eq(table.id, id))
deletePattern(table, id) ==
    IF ~patternTable[id].deleted /\ patternTable[id].table = table
    THEN [patternTable EXCEPT ![id] = NoRow]
    ELSE patternTable

Served(method, table, userId, companyId, id, status) ==
    lastRequest' = [method |-> method, table |-> table, userId |-> userId,
                    companyId |-> companyId, id |-> id, status |-> status]

PutPattern(table) ==
    \E userId \in Users, companyId \in CompanyIds, id \in PatternIds, body \in UpdateBodies :
        IF ~ownsCompany(userId, companyId)
        THEN /\ Served("PUT", table, userId, companyId, id, 403)
             /\ UNCHANGED patternTable
        ELSE /\ patternTable' = updatePattern(table, id, body)
             /\ Served("PUT", table, userId, companyId, id, 200)

DeletePattern(table) ==
    \E userId \in Users, companyId \in CompanyIds, id \in PatternIds :
        IF ~ownsCompany(userId, companyId)
        THEN /\ Served("DELETE", table, userId, companyId, id, 403)
             /\ UNCHANGED patternTable
        ELSE /\ patternTable' = deletePattern(table, id)
             /\ Served("DELETE", table, userId, companyId, id, 204)

runVars == <<inputVars, streamVars, cancel, pc, occurrences, balanceMap, applied, loopIndex,
             emitCount, published, workDone, monthlyTotals, overallTotals, outcome,
             sim, savedBalances, response>>

PutRevenuePattern == PutPattern("revenue") /\ UNCHANGED <<runVars, companyOwner>>

DeleteRevenuePattern == DeletePattern("revenue") /\ UNCHANGED <<runVars, companyOwner>>

PutExpensePattern == PutPattern("expense") /\ UNCHANGED <<runVars, companyOwner>>

DeleteExpensePattern == DeletePattern("expense") /\ UNCHANGED <<runVars, companyOwner>>

AccessInit ==
    /\ caller = "client"
    /\ inputs \in { in \in ValidInputs : in.fiscalStartMonth = 1 }
    /\ company = GoodCompany
    /\ revenuePatterns = <<>>
    /\ expensePatterns = <<>>
    /\ tzWest = FALSE
    /\ tzEast = FALSE
    /\ sinkFailAt = {}
    /\ pc = "serving"
    /\ occurrences = <<>>
    /\ balanceMap = NoValue
    /\ applied = <<>>
    /\ loopIndex = 0
    /\ emitCount = 0
    /\ published = <<>>
    /\ workDone = {}
    /\ monthlyTotals = NoValue
    /\ overallTotals = NoValue
    /\ outcome = NoValue
    /\ sim = NoValue
    /\ savedBalances = 0
    /\ response = NoValue
    /\ NoSubscriber /\ NoRequest /\ cancel = FALSE

AccessNext ==
    PutRevenuePattern \/ DeleteRevenuePattern \/ PutExpensePattern \/ DeleteExpensePattern

AccessSpec == AccessInit /\ [][AccessNext]_vars

\* the owner of the company a stored pattern belongs to
ownerOfPattern(id) == companyOwner[patternTable[id].companyId]

\* C20: a request changes or deletes a stored pattern only if the user who
\* sent it owns the company the pattern belongs to; no request lets a user
\* modify or delete a pattern of a company owned by another user.
C20_OnlyOwnerChangesPattern ==
    [][\A id \in PatternIds :
          (~patternTable[id].deleted /\ patternTable'[id] # patternTable[id])
              => lastRequest'.userId = ownerOfPattern(id)]_vars

(***************************************************************************)
(* Cancellation.  runSimulation takes inputs, patterns, company, config,   *)
(* simulationId and progressCallback: it has no parameter for a signal and *)
(* reads none.  The caller's signal is a flag raised beside the run while  *)
(* the month loop is under way.                                            *)
(***************************************************************************)
CancelFires ==
    /\ pc = "e_month"
    /\ ~cancel
    /\ cancel' = TRUE
    /\ UNCHANGED <<inputVars, streamVars, accessVars, pc, occurrences, balanceMap, applied,
                   loopIndex, emitCount, published, workDone, monthlyTotals, overallTotals,
                   outcome, sim, savedBalances, response>>

CancelNext == Next \/ CancelFires

CancelSpec == Init /\ [][CancelNext]_vars

\* C21: a run whose cancellation signal fired during the month loop stops
\* at the end of the month step under way: it ends with a cancellation error
\* and without results, no later stage is started, and the stored progress
\* of a run started by the route is the failed one.
C21_CancelStopsRun ==
    (cancel /\ Terminated) =>
        /\ FailedWith("cancelled")
        /\ ~Succeeded
        /\ "rollForward" \notin workDone
        /\ sim # NoValue => sim.status = "failed"

\* the entries of the list that name the date
overridesFor(pattern, date) ==
    { k \in 1..Len(pattern.dayOffOverrides) : pattern.dayOffOverrides[k].date = date }

visitedDates(pattern) == Range(dailyWindow(pattern, inputs.year))

\* C22: when dayOffOverrides holds more than one entry for a date the
\* expansion visits, the last of them in the list decides whether the date
\* has an occurrence.
C22_LastOverrideWins ==
    Expanded =>
        \A date \in visitedDates(revenuePatterns[1]) :
            LET pattern == revenuePatterns[1]
                entries == overridesFor(pattern, date)
                last == CHOOSE k \in entries : \A j \in entries : j <= k
            IN Cardinality(entries) > 1 =>
                  (hasOccurrenceOn(date) <=> pattern.dayOffOverrides[last].active)

\* a daily pattern that no rule thins out: every day of its window is active
everyDayActive(pattern) ==
    /\ pattern.daysMask = NoMask
    /\ ~pattern.excludeWeekends
    /\ ~pattern.excludeHolidays
    /\ pattern.dayOffOverrides = <<>>

occurrenceDates == { occurrences[k].date : k \in 1..Len(occurrences) }

\* C23: the window of a daily pattern starts at the later of startDate and
\* 1 January of the year, at 1 January when startDate is absent whatever
\* startMonth is, and ends at 31 December inclusive: a pattern active on
\* every day has its occurrences on exactly the days of that window.
C23_DailyWindow ==
    (Expanded /\ everyDayActive(revenuePatterns[1])) =>
        LET pattern == revenuePatterns[1]
            year == inputs.year
            first == IF pattern.startDate = NoDate \/ pattern.startDate.year < year THEN 1
                     ELSE dayOfYear(year, [month |-> pattern.startDate.month,
                                           day |-> pattern.startDate.day])
            expected == IF pattern.startDate # NoDate /\ pattern.startDate.year > year
                        THEN {}
                        ELSE { dateOfDay(year, n) : n \in first..daysInYear(year) }
        IN occurrenceDates = expected

\* C24: the monthlyBalances of returned results are sorted by fiscal month
\* first and, within a month, in the Account order operating, savings,
\* personal, vat.
C24_BalancesInAccountOrder ==
    Succeeded =>
        LET order == getFiscalMonthOrder(inputs.fiscalStartMonth)
        IN /\ Len(outcome.monthlyBalances) = 48
           /\ \A k \in 1..48 :
                 /\ outcome.monthlyBalances[k].month = order[((k - 1) \div 4) + 1]
                 /\ outcome.monthlyBalances[k].account = Accounts[((k - 1) % 4) + 1]

\* the part of C24 about the months alone
C24_BalancesInFiscalOrder ==
    Succeeded =>
        \A j, k \in 1..48 :
            j < k => calendarToFiscalMonth(outcome.monthlyBalances[j].month,
                                           inputs.fiscalStartMonth)
                     <= calendarToFiscalMonth(outcome.monthlyBalances[k].month,
                                              inputs.fiscalStartMonth)

\* C25: within one run the occurrences are applied to the ledger in
\* ascending date order, for every fiscalStartMonth: when an occurrence is
\* applied, every occurrence of the run with an earlier date has been
\* applied before it.
C25_AppliedInDateOrder ==
    caller \in {"route", "test"} =>
        \A i \in 1..Len(applied) :
            \A k \in 1..Len(occurrences) :
                DateKey(occurrences[k]) < DateKey(occurrences[applied[i]])
                    => \E j \in 1..(i - 1) : applied[j] = k

\* the months whose group of occurrences the month loop has posted
monthsPosted == { groupMonth(occurrences[applied[i]]) : i \in 1..Len(applied) }

InMonthLoop == pc \in {"e_month", "e_emit85", "e_catch"}

\* C26: while the ledger is not rolled forward, every fiscal month whose
\* postings the route's run has applied has a published snapshot, and in it
\* partialBalances[account] is that month's opening balance plus the
\* netChange accumulated for that month, for every account.
C26_PartialBalances ==
    (hasSink /\ sinkFailAt = {} /\ InMonthLoop) =>
        \A month \in monthsPosted :
            \E k \in 1..Len(published) :
                /\ published[k].hasPartial
                /\ published[k].currentMonth = month
                /\ \A a \in AccountSet :
                      published[k].partialBalances[a]
                        = balanceMap[a][month].openingBalance
                          + balanceMap[a][month].summary.netChange

(***************************************************************************)
(* schema.ts and routes.ts: creation of a pattern.  A field of the request *)
(* body is either absent or carries a value.                               *)
(***************************************************************************)
Undefined == [defined |-> FALSE]

Defined(value) == [defined |-> TRUE, value |-> value]

\* DailyPatternUtils.validateDailyPattern: the list of its error messages
validateDailyPattern(pattern, frequency) ==
    IF frequency = "daily"
    THEN IF \/ pattern.daysMask = Undefined
            \/ pattern.daysMask.value < 0
            \/ pattern.daysMask.value > 127
         THEN << "daysMask is required for daily patterns and must be between 0-127" >>
         ELSE << >>
    ELSE IF \/ pattern.daysMask # Undefined
            \/ Len(pattern.dayOffOverrides) # 0
            \/ pattern.excludeWeekends # Undefined
            \/ pattern.excludeHolidays # Undefined
         THEN << "Daily pattern fields are ignored for this frequency" >>
         ELSE << >>

\* the refinement of insertRevenuePatternSchema and insertExpensePatternSchema:
\* the two flags are handed over as the results of `=== 1'
insertPatternSchemaErrors(data) ==
    validateDailyPattern([daysMask |-> data.daysMask,
                          excludeWeekends |-> Defined(data.excludeWeekends = Defined(1)),
                          excludeHolidays |-> Defined(data.excludeHolidays = Defined(1)),
                          dayOffOverrides |-> data.dayOffOverrides],
                         data.frequency)

\* request bodies that pass every other rule of the schema
CreateBodies ==
    { [frequency |-> frequency, startMonth |-> 1, amount |-> 120000,
       daysMask |-> mask, excludeWeekends |-> weekends, excludeHolidays |-> hols,
       dayOffOverrides |-> overrides] :
        frequency \in {"daily", "monthly", "quarterly", "yearly"},
        mask \in {Undefined, Defined(62)},
        weekends \in {Undefined, Defined(0), Defined(1)},
        hols \in {Undefined, Defined(0), Defined(1)},
        overrides \in SeqsUpTo({[date |-> [month |-> 5, day |-> 1], active |-> TRUE]}, 1) }

NewPatternId(table) == IF table = "revenue" THEN "rev-new" ELSE "exp-new"

ServedCreate(table, userId, companyId, body, status) ==
    lastRequest' = [method |-> "POST", table |-> table, userId |-> userId,
                    companyId |-> companyId, id |-> NewPatternId(table),
                    body |-> body, status |-> status]

PostPattern(table) ==
    \E userId \in Users, companyId \in CompanyIds, body \in CreateBodies :
        /\ NewPatternId(table) \notin DOMAIN patternTable
        /\ IF ~ownsCompany(userId, companyId)
           THEN /\ ServedCreate(table, userId, companyId, body, 403)
                /\ UNCHANGED patternTable
           ELSE IF insertPatternSchemaErrors(body) # << >>
           THEN /\ ServedCreate(table, userId, companyId, body, 400)
                /\ UNCHANGED patternTable
           ELSE /\ patternTable' = (NewPatternId(table) :>
                                       [deleted |-> FALSE, table |-> table,
                                        companyId |-> companyId, amount |-> body.amount])
                                   @@ patternTable
                /\ ServedCreate(table, userId, companyId, body, 201)

PostRevenuePattern == PostPattern("revenue") /\ UNCHANGED <<runVars, companyOwner>>

PostExpensePattern == PostPattern("expense") /\ UNCHANGED <<runVars, companyOwner>>

CreateNext == PostRevenuePattern \/ PostExpensePattern

CreateSpec == AccessInit /\ [][CreateNext]_vars

\* C27: a pattern whose frequency is monthly, quarterly or yearly is never
\* rejected because of daysMask, excludeWeekends, excludeHolidays or
\* dayOffOverrides, whatever their values: its owner's request to create it
\* is answered 201.
C27_DailyFieldsIgnored ==
    (/\ lastRequest # NoValue
     /\ lastRequest.method = "POST"
     /\ ownsCompany(lastRequest.userId, lastRequest.companyId)
     /\ lastRequest.body.frequency # "daily")
        => lastRequest.status = 201

\* C28: once the stored status of a simulation is completed or failed, no
\* step changes it: a simulation seen as completed is never seen later as
\* failed or running.
C28_TerminalStatusIsFinal ==
    [][(sim # NoValue /\ IsTerminalStatus(sim.status)) => sim'.status = sim.status]_vars

transactionCount ==
    Sum([k \in 1..48 |->
            Len(balanceMap[Accounts[((k - 1) % 4) + 1]][((k - 1) \div 4) + 1].transactions)])

postingCount == Sum([k \in 1..Len(occurrences) |-> Len(occurrences[k].accountPostings)])

\* C29: in the month loop no occurrence is applied twice, every occurrence
\* is applied in the step of the calendar month of its date, which is the
\* month of the bucket it is posted to, and once the loop is over every
\* occurrence has been applied and the ledger holds one transaction record
\* for each posting of each occurrence.
C29_AppliedOnceInItsMonth ==
    caller \in {"route", "test"} =>
        /\ \A i, j \in 1..Len(applied) : applied[i] = applied[j] => i = j
        /\ \A i \in 1..Len(applied) :
              groupMonth(occurrences[applied[i]]) = postingMonth(occurrences[applied[i]])
        /\ "postings" \in workDone =>
              /\ Range(applied) = 1..Len(occurrences)
              /\ transactionCount = postingCount


\* ---------------------------------------------------------------------------
\* Expansion of one monthly, quarterly or yearly pattern, for every startMonth
\* ---------------------------------------------------------------------------

AllStartMonths == 1..12

PeriodicPatterns ==
    { [frequency |-> f, startMonth |-> m] @@ p :
        p \in PatternKinds, f \in RunFrequencies, m \in AllStartMonths }

PeriodicInit ==
    /\ caller = "expansion"
    /\ inputs \in { in \in ValidInputs : in.fiscalStartMonth = 1 }
    /\ company = GoodCompany
    /\ \E pattern \in PeriodicPatterns :
          /\ revenuePatterns = IF pattern.kind = "revenue" THEN <<pattern>> ELSE <<>>
          /\ expensePatterns = IF pattern.kind = "expense" THEN <<pattern>> ELSE <<>>
    /\ tzWest = FALSE
    /\ tzEast = FALSE
    /\ sinkFailAt = {}
    /\ pc = "p_expand"
    /\ occurrences = <<>>
    /\ balanceMap = NoValue
    /\ applied = <<>>
    /\ loopIndex = 0
    /\ emitCount = 0
    /\ published = <<>>
    /\ workDone = {}
    /\ monthlyTotals = NoValue
    /\ overallTotals = NoValue
    /\ outcome = NoValue
    /\ sim = NoValue
    /\ savedBalances = 0
    /\ response = NoValue
    /\ NoSubscriber /\ NoRequest /\ cancel = FALSE

PeriodicExpand ==
    /\ pc = "p_expand"
    /\ occurrences' = expandPattern((revenuePatterns \o expensePatterns)[1])
    /\ workDone' = workDone \cup {"expand"}
    /\ pc' = "p_done"
    /\ UNCHANGED <<inputVars, outsideVars, balanceMap, applied, loopIndex, emitCount,
                   published, monthlyTotals, overallTotals, outcome, sim,
                   savedBalances, response>>

PeriodicSpec == PeriodicInit /\ [][PeriodicExpand]_vars

periodicPattern == (revenuePatterns \o expensePatterns)[1]

quarterStart(month) == (((month + 2) \div 3) - 1) * 3 + 1

\* C30 (as stated): every occurrence produced from a monthly, quarterly or
\* yearly pattern is dated on or after the first day of the pattern's
\* startMonth in the target year, for every startMonth in 1..12.
C30_OnOrAfterStartMonth ==
    pc = "p_done" =>
        \A k \in 1..Len(occurrences) :
            occurrences[k].date.month >= periodicPattern.startMonth

\* C30 (amended): every occurrence of a monthly or yearly pattern is dated the
\* first of a month from startMonth to December; every occurrence of a
\* quarterly pattern is dated the first of January, April, July or October,
\* on or after the first month of the quarter that holds startMonth, which
\* is up to two months before startMonth.
C30_OnOrAfterStartPeriod ==
    pc = "p_done" =>
        \A k \in 1..Len(occurrences) :
            LET date == occurrences[k].date
                startMonth == periodicPattern.startMonth
            IN /\ date.day = 1
               /\ date.month <= 12
               /\ IF periodicPattern.frequency = "quarterly"
                  THEN /\ date.month \in {1, 4, 7, 10}
                       /\ date.month >= quarterStart(startMonth)
                  ELSE date.month >= startMonth

C30_Witness ==
    /\ pc = "p_done"
    /\ periodicPattern.frequency = "quarterly"
    /\ periodicPattern.startMonth = 9
    /\ Len(occurrences) = 2
    /\ occurrences[1].date = [month |-> 7, day |-> 1]

================================================================================
